---- MODULE Spec2Model ----
(***************************************************************************)
(* Model of the K-Square onboarding workflow pipeline:                     *)
(*   backend/workflow_orchestrator.py  WorkflowOrchestrator                *)
(*   backend/agents/client_profile.py  ClientProfileAgent                  *)
(*   backend/database/db_manager.py    DatabaseManager (profiles table)    *)
(*   backend/agents/domain_knowledge.py, actionable_insights.py,           *)
(*   meetings.py                       the scoring helpers of the agents   *)
(*                                                                         *)
(* execute_full_workflow is a coroutine.  Each `await` of an agent call is *)
(* a point where the coroutine may be suspended, so one run is modelled as *)
(* a process whose steps are the code between two consecutive awaits; the  *)
(* runs of different requests interleave at those points.                  *)
(*                                                                         *)
(* What an awaited agent call can hand back to the orchestrator:           *)
(*   - a success-tagged or an error-tagged result (every agent body is     *)
(*     wrapped in try/except and returns {"status": "error", ...});        *)
(*   - for stages 1..3 also an exception raised by the call expression     *)
(*     itself, outside the agent's try/except: line 52 passes one          *)
(*     argument to process_setup, which takes four (TypeError), lines 61   *)
(*     and 74 call analyze_domain / build_profile, which the agent classes *)
(*     in src/ do not define (AttributeError).                             *)
(* With the agent classes exactly as they are in src/ the raise is the     *)
(* only outcome of the stage-1 call; the model keeps the tagged outcomes   *)
(* too, so that the orchestrator's own control flow is covered for any     *)
(* agent that honours the result contract.                                 *)
(***************************************************************************)
EXTENDS Integers, Sequences, FiniteSets, TLC

\* ------------------------------------------------------------------ bounds
MaxRuns == 2
MaxTime == 2
MaxSaves == 1
TicksPerSecond == 2

Runs == 1..MaxRuns

\* --------------------------------------------------------------- constants
\* keys of agent_results, in pipeline order (orchestrator lines 53..95)
StageKeys ==
  <<"programme_setup", "domain_knowledge", "client_profile", "meetings",
    "actionable_insights">>

\* values of current_step, in the order the code assigns them (lines 47..96)
StepNames ==
  <<"programme_setup", "domain_knowledge", "client_profile",
    "meetings_analysis", "actionable_insights", "completed">>

\* text of the exceptions the orchestrator raises itself (lines 57, 70, 79, 99)
FailureLabel ==
  [programme_setup     |-> "Programme Setup failed",
   domain_knowledge    |-> "Domain Knowledge Analysis failed",
   client_profile      |-> "Client Profile Building failed",
   actionable_insights |-> "Actionable Insights generation failed"]

\* outcomes of the awaited calls
SetupOutcomes    == {"success", "error", "raise"}
DomainOutcomes   == {"success", "error", "raise"}
ProfileOutcomes  == {"success", "error", "raise"}
InsightsOutcomes == {"success", "error"}
MeetingsLookups  == {"raises", "none", "some"}
AnalysisOutcomes == {"success", "error"}

\* ------------------------------------------------------------------ strings
\* A name is a sequence of characters; str.lower() works per character.
Range(s) == {s[i] : i \in DOMAIN s}

UpperLetters ==
  <<"A", "B", "C", "D", "E", "F", "G", "H", "I", "J", "K", "L", "M",
    "N", "O", "P", "Q", "R", "S", "T", "U", "V", "W", "X", "Y", "Z">>
LowerLetters ==
  <<"a", "b", "c", "d", "e", "f", "g", "h", "i", "j", "k", "l", "m",
    "n", "o", "p", "q", "r", "s", "t", "u", "v", "w", "x", "y", "z">>

\* str.lower(), letter by letter
LowerTable ==
  [c \in Range(UpperLetters) |->
     LowerLetters[CHOOSE i \in DOMAIN UpperLetters : UpperLetters[i] = c]]

LowerChar(c) == IF c \in DOMAIN LowerTable THEN LowerTable[c] ELSE c

Lower(s) == [i \in DOMAIN s |-> LowerChar(s[i])]

\* A comma separated tech stack is modelled by its pieces; a piece keeps the
\* blanks around the word, str.strip() drops them.
Strip(piece) == piece.word


\* ------------------------------------------------------------------ intake
Intakes ==
  { [client_name |-> <<"g", "t">>, industry |-> "Automotive",
     problem_statement |-> "lead management",
     tech_stack |-> << [pad |-> 0, word |-> "Salesforce"],
                       [pad |-> 1, word |-> "Java"] >>],
    [client_name |-> <<"Z", "u">>, industry |-> "Healthcare",
     problem_statement |-> "patient record",
     tech_stack |-> << [pad |-> 0, word |-> "Python"],
                       [pad |-> 0, word |-> "Python"] >>] }

\* rows of the profiles table after load_use_cases (one of the three use cases)
SeedProfiles ==
  << [client_name |-> <<"G", "T">>,
      profile_data |-> [name |-> <<"G", "T">>, industry |-> "Automotive",
                        tech_stack |-> << >>]] >>

VARIABLES
  now,             \* the clock, in ticks
  workflow_state,  \* WorkflowOrchestrator.workflow_state: id -> record
  profiles,        \* rows of the profiles table, in rowid order
  saves,           \* number of conversational profile saves so far
  pc,              \* per run: the await the run is suspended at
  wid,             \* per run: its workflow_id
  client_data,     \* per run: the intake it was called with
  results,         \* per run: setup_result .. insights_result, once assigned
  calls,           \* per run: the stages invoked so far, in order
  failed_stage,    \* per run: key of the stage whose failure ended the run
  ret,             \* per run: what execute_full_workflow returned
  calc,            \* the last call of an agent's helper: its inputs and output
  conversation,    \* the ConversationState the caller of the setup agent holds
  meetings,        \* rows of the meetings table the conversations added
  sessions,        \* NaturalConversationalAgent.sessions: id -> session
  session_saves    \* per session id: the calls of _save_session so far

\* the state of the orchestrator and of the store
wf_vars ==
  <<now, workflow_state, profiles, saves, pc, wid, client_data, results,
    calls, failed_stage, ret>>

\* the state of the two conversational agents
conv_vars == <<conversation, meetings, sessions, session_saves>>

vars == <<wf_vars, calc, conv_vars>>

NoId == 0 - 1
NoError == "none"
NoIntake == [client_name |-> << >>]
NoStage == "none"
NoReturn == [status |-> "pending"]
Escaped == [status |-> "exception"]
Empty == << >>
NoCalc == [fn |-> "none"]
\* no conversation started yet
NoConversation == [conversation_stage |-> "none"]
SessionIds == {"s1"}

\* ------------------------------------------------------------ workflow ids
\* faulty variant: the id keeps the full precision of the clock
WorkflowId_per_tick(t) == t

\* datetime.now().strftime('%Y%m%d_%H%M%S'): the id keeps whole seconds only
WorkflowId(t) == t \div TicksPerSecond

\* ----------------------------------------------------------- profile store
\* DatabaseManager.get_client_profiles: SELECT * FROM profiles
get_client_profiles(store) == store

\* DatabaseManager.save_client_profile: UPDATE ... WHERE client_name = ? when a
\* row with exactly that client_name exists, INSERT otherwise
save_client_profile(store, client_name, profile_data) ==
  IF \E i \in DOMAIN store : store[i].client_name = client_name
  THEN [i \in DOMAIN store |->
          IF store[i].client_name = client_name
          THEN [store[i] EXCEPT !.profile_data = profile_data]
          ELSE store[i]]
  ELSE Append(store, [client_name |-> client_name, profile_data |-> profile_data])

\* ConversationalSetupAgent._create_client_profile: the profile the
\* conversational flow saves has no "name" key (it uses "company_name")
conversational_profile(company_name, tech_stack) ==
  [name |-> Empty, industry |-> "Unknown", tech_stack |-> tech_stack]

\* the stored name as it is, and the same name typed in lower case
ConversationalSaves ==
  { [company_name |-> <<"G", "T">>, tech_stack |-> <<"Java">>],
    [company_name |-> <<"g", "t">>, tech_stack |-> <<"Java">>] }

\* ------------------------------------------------------ ClientProfileAgent
split_and_strip(tech_stack) == [i \in DOMAIN tech_stack |-> Strip(tech_stack[i])]

create_new_profile(cd) ==
  [name |-> cd.client_name, industry |-> cd.industry,
   tech_stack |-> split_and_strip(cd.tech_stack)]

\* list(S) of a Python set S: its elements once each, in an order the
\* language does not fix
list_of_set(S) == {s \in [1..Cardinality(S) -> S] : Range(s) = S}

\* faulty variant: current_tech + new_tech without the merge into a set
enhance_profile_appends(profile_data, cd) ==
  LET new_tech == split_and_strip(cd.tech_stack)
  IN  { [name |-> profile_data.name,
         industry |-> profile_data.industry,
         tech_stack |-> profile_data.tech_stack \o new_tech,
         current_project |-> [problem_statement |-> cd.problem_statement,
                              technologies |-> new_tech]] }

\* _enhance_profile: all_tech = list(set(current_tech + new_tech)).  The
\* operator gives every profile the call can return, one per order of the
\* merged list.
enhance_profile(profile_data, cd) ==
  LET new_tech == split_and_strip(cd.tech_stack)
  IN  { [name |-> profile_data.name,
         industry |-> profile_data.industry,
         tech_stack |-> all_tech,
         current_project |-> [problem_statement |-> cd.problem_statement,
                              technologies |-> new_tech]]
        : all_tech \in list_of_set(Range(profile_data.tech_stack \o new_tech)) }

\* the first stored row whose name equals client_name ignoring case
existing_rows(store, client_name) ==
  {i \in DOMAIN store : Lower(store[i].client_name) = Lower(client_name)}

Min(S) == CHOOSE x \in S : \A y \in S : x <= y

\* the results build_client_profile can return when nothing raises
build_client_profile(store, cd) ==
  LET rows == get_client_profiles(store)
      hits == existing_rows(rows, cd.client_name)
      profile_data == IF hits # {} THEN rows[Min(hits)].profile_data
                      ELSE create_new_profile(cd)
  IN  { [status |-> "success", agent |-> "client_profile",
         client_profile |-> enhanced_profile,
         profile_exists |-> hits # {}]
        : enhanced_profile \in enhance_profile(profile_data, cd) }

\* ------------------------------------------------------------ stage results
SuccessResult(key) == [status |-> "success", agent |-> key]
ErrorResult(key) == [status |-> "error", agent |-> key]

\* WorkflowOrchestrator._analyze_meetings_for_client: the lookup raising is
\* caught and tagged; no meetings is a success; otherwise the tag is the one
\* analyze_meeting gives for the latest meeting
analyze_meetings_for_client(lookup, analysis) ==
  CASE lookup = "raises" -> ErrorResult("meetings")
    [] lookup = "none"   -> SuccessResult("meetings")
    [] OTHER             -> [status |-> analysis, agent |-> "meetings"]

\* ------------------------------------------------------------- exceptions
\* raise Exception(f"<label>: {result.get('message')}")
StageFailed(key) == [raised_by |-> "orchestrator", text |-> FailureLabel[key]]
\* an exception coming out of the awaited call itself
CallRaised(key) == [raised_by |-> "call", text |-> "exception text"]

\* --------------------------------------------------------- workflow records
\* lines 42..48.  The start_time, end_time and execution_time stamps are not
\* carried: nothing in the orchestrator branches on them.
new_workflow_record(cd) ==
  [status |-> "running", client_data |-> cd, agent_results |-> Empty,
   current_step |-> "programme_setup", error |-> NoError]

\* faulty variant: the stage result replaces the whole agent_results mapping
store_result_replaces(ws, id, key, result, next_step) ==
  [ws EXCEPT ![id].agent_results = (key :> result),
             ![id].current_step = next_step]

\* agent_results[key] = result ; current_step = next_step
store_result(ws, id, key, result, next_step) ==
  [ws EXCEPT ![id].agent_results = (key :> result) @@ @,
             ![id].current_step = next_step]

\* lines 102..109
mark_completed(ws, id) ==
  [ws EXCEPT ![id].status = "completed"]

\* faulty variant: the failure handler also rewinds the step pointer
mark_failed_rewinds(ws, id, e) ==
  [ws EXCEPT ![id].status = "failed", ![id].error = e.text,
             ![id].current_step = "programme_setup"]

\* lines 119..123
mark_failed(ws, id, e) ==
  [ws EXCEPT ![id].status = "failed", ![id].error = e.text]

\* faulty variant: the error result drops what the stages had produced
error_return_discards(ws, id, e) ==
  [status |-> "error", workflow_id |-> id, message |-> e.text,
   partial_results |-> Empty]

\* lines 125..130
error_return(ws, id, e) ==
  [status |-> "error", workflow_id |-> id, message |-> e.text,
   partial_results |-> ws[id].agent_results]

\* _generate_workflow_summary: the per-stage extracts are projections of
\* full_results and are not carried
generate_workflow_summary(ws, id) ==
  [status |-> ws[id].status, workflow_id |-> id,
   client_name |-> ws[id].client_data.client_name,
   full_results |-> ws[id].agent_results]

\* faulty variant: only the orchestrator's own exceptions are caught
handle_exception_own_only(ws, id, e) ==
  IF e.raised_by = "call" THEN Escaped ELSE error_return(ws, id, e)

\* the except clause of execute_full_workflow: what the caller gets for e
handle_exception(ws, id, e) == error_return(ws, id, e)

\* ------------------------------------------------- execute_full_workflow
\* faulty variant: the handler records the failure but does not end the run
Fails_keeps_running(r, ws, e, key) ==
  LET failed == mark_failed(ws, wid[r], e)
  IN  /\ workflow_state' = failed
      /\ ret' = [ret EXCEPT ![r] = handle_exception(failed, wid[r], e)]
      /\ pc' = pc
      /\ failed_stage' = [failed_stage EXCEPT ![r] = key]
      /\ calls' = calls

\* the except block, entered from the stage with key `key`
Fails(r, ws, e, key) ==
  LET failed == mark_failed(ws, wid[r], e)
  IN  /\ workflow_state' = failed
      /\ ret' = [ret EXCEPT ![r] = handle_exception(failed, wid[r], e)]
      /\ pc' = [pc EXCEPT ![r] = "returned"]
      /\ failed_stage' = [failed_stage EXCEPT ![r] = key]
      /\ calls' = calls

\* the run goes on to await the next stage
Continues(r, ws, next_key) ==
  /\ workflow_state' = ws
  /\ pc' = [pc EXCEPT ![r] = next_key]
  /\ calls' = [calls EXCEPT ![r] = Append(@, next_key)]
  /\ UNCHANGED <<ret, failed_stage>>

\* a stage whose result the orchestrator checks (stages 1, 2, 3)
CheckedStage(r, key, next_step, next_key, outcome, result) ==
  IF outcome = "raise"
  THEN /\ results' = results
       /\ Fails(r, workflow_state, CallRaised(key), key)
  ELSE LET ws == store_result(workflow_state, wid[r], key, result, next_step)
       IN  /\ results' = [results EXCEPT ![r] = (key :> result) @@ @]
           /\ IF result.status # "success"
              THEN Fails(r, ws, StageFailed(key), key)
              ELSE Continues(r, ws, next_key)

\* lines 35..52: up to the first await
execute_full_workflow(r, cd) ==
  /\ pc[r] = "idle"
  /\ LET id == WorkflowId(now)
     IN  /\ wid' = [wid EXCEPT ![r] = id]
         /\ workflow_state' = (id :> new_workflow_record(cd)) @@ workflow_state
  /\ client_data' = [client_data EXCEPT ![r] = cd]
  /\ pc' = [pc EXCEPT ![r] = "programme_setup"]
  /\ calls' = [calls EXCEPT ![r] = <<"programme_setup">>]
  /\ UNCHANGED <<now, profiles, saves, results, failed_stage, ret, calc, conv_vars>>

\* lines 52..61
programme_setup_returns(r, outcome) ==
  /\ pc[r] = "programme_setup"
  /\ CheckedStage(r, "programme_setup", "domain_knowledge", "domain_knowledge",
                  outcome, [status |-> outcome, agent |-> "programme_setup"])
  /\ UNCHANGED <<now, profiles, saves, wid, client_data, calc, conv_vars>>

\* lines 61..74
domain_knowledge_returns(r, outcome) ==
  /\ pc[r] = "domain_knowledge"
  /\ CheckedStage(r, "domain_knowledge", "client_profile", "client_profile",
                  outcome, [status |-> outcome, agent |-> "domain_knowledge"])
  /\ UNCHANGED <<now, profiles, saves, wid, client_data, calc, conv_vars>>

\* lines 74..83, with ClientProfileAgent.build_client_profile as the callee
client_profile_returns(r, outcome) ==
  /\ pc[r] = "client_profile"
  /\ \E result \in IF outcome = "success"
                     THEN build_client_profile(profiles, client_data[r])
                     ELSE {ErrorResult("client_profile")} :
        CheckedStage(r, "client_profile", "meetings_analysis", "meetings",
                     outcome, result)
  /\ UNCHANGED <<now, profiles, saves, wid, client_data, calc, conv_vars>>

\* lines 83..89: the meetings result is stored and never inspected
meetings_returns(r, lookup, analysis) ==
  /\ pc[r] = "meetings"
  /\ LET result == analyze_meetings_for_client(lookup, analysis)
         ws == store_result(workflow_state, wid[r], "meetings", result,
                            "actionable_insights")
     IN  /\ results' = [results EXCEPT ![r] = ("meetings" :> result) @@ @]
         /\ Continues(r, ws, "actionable_insights")
  /\ UNCHANGED <<now, profiles, saves, wid, client_data, calc, conv_vars>>

\* lines 89..115
actionable_insights_returns(r, outcome) ==
  /\ pc[r] = "actionable_insights"
  /\ LET result == [status |-> outcome, agent |-> "actionable_insights"]
         ws == store_result(workflow_state, wid[r], "actionable_insights",
                            result, "completed")
         done == mark_completed(ws, wid[r])
     IN  /\ results' = [results EXCEPT ![r] = ("actionable_insights" :> result) @@ @]
         /\ IF result.status # "success"
            THEN Fails(r, ws, StageFailed("actionable_insights"),
                       "actionable_insights")
            ELSE /\ workflow_state' = done
                 /\ ret' = [ret EXCEPT ![r] = generate_workflow_summary(done, wid[r])]
                 /\ pc' = [pc EXCEPT ![r] = "returned"]
                 /\ UNCHANGED <<calls, failed_stage>>
  /\ UNCHANGED <<now, profiles, saves, wid, client_data, calc, conv_vars>>

\* ---------------------------------------------------- the rest of the system
\* ConversationalSetupAgent._create_client_profile -> save_client_profile
create_client_profile(info) ==
  /\ saves < MaxSaves
  /\ saves' = saves + 1
  /\ profiles' = save_client_profile(profiles, info.company_name,
                    conversational_profile(info.company_name, info.tech_stack))
  /\ UNCHANGED <<now, workflow_state, pc, wid, client_data, results, calls,
                 failed_stage, ret, calc, conv_vars>>

\* datetime.now() moves on
Tick ==
  /\ now < MaxTime
  /\ now' = now + 1
  /\ UNCHANGED <<workflow_state, profiles, saves, pc, wid, client_data, results,
                 calls, failed_stage, ret, calc, conv_vars>>

Init ==
  /\ now = 0
  /\ workflow_state = Empty
  /\ profiles = SeedProfiles
  /\ saves = 0
  /\ pc = [r \in Runs |-> "idle"]
  /\ wid = [r \in Runs |-> NoId]
  /\ client_data = [r \in Runs |-> NoIntake]
  /\ results = [r \in Runs |-> Empty]
  /\ calls = [r \in Runs |-> Empty]
  /\ failed_stage = [r \in Runs |-> NoStage]
  /\ ret = [r \in Runs |-> NoReturn]
  /\ calc = NoCalc
  /\ conversation = NoConversation
  /\ meetings = Empty
  /\ sessions = Empty
  /\ session_saves = [id \in SessionIds |-> 0]

Next ==
  \/ \E r \in Runs, cd \in Intakes : execute_full_workflow(r, cd)
  \/ \E r \in Runs, o \in SetupOutcomes : programme_setup_returns(r, o)
  \/ \E r \in Runs, o \in DomainOutcomes : domain_knowledge_returns(r, o)
  \/ \E r \in Runs, o \in ProfileOutcomes : client_profile_returns(r, o)
  \/ \E r \in Runs, l \in MeetingsLookups, a \in AnalysisOutcomes :
        meetings_returns(r, l, a)
  \/ \E r \in Runs, o \in InsightsOutcomes : actionable_insights_returns(r, o)
  \/ \E info \in ConversationalSaves : create_client_profile(info)
  \/ Tick

\* ------------------------------------------------- execute_single_agent
\* names a caller can pass: the five agents, a current_step value that is not
\* an agent name, and a name nothing uses
AgentNames ==
  Range(StageKeys) \cup {"meetings_analysis", "unknown"}

\* outcomes of the awaited agent call of lines 137..163
SingleOutcomes(agent_name) ==
  CASE agent_name = "programme_setup" -> SetupOutcomes
    [] agent_name = "domain_knowledge" -> DomainOutcomes
    [] agent_name = "client_profile" -> ProfileOutcomes
    [] agent_name = "meetings" -> AnalysisOutcomes
    [] agent_name = "actionable_insights" -> InsightsOutcomes
    [] OTHER -> {"none"}

\* lines 165..169 and 171..176
UnknownAgent == [status |-> "error", message |-> "Unknown agent"]
AgentExecutionFailed == [status |-> "error", message |-> "Agent execution failed"]

\* what execute_single_agent returns
single_agent_result(agent_name, outcome) ==
  CASE agent_name \notin Range(StageKeys) -> UnknownAgent
    [] outcome = "raise" -> AgentExecutionFailed
    [] OTHER -> [status |-> outcome, agent |-> agent_name]

\* lines 132..176: no statement reads or writes workflow_state
execute_single_agent(agent_name, outcome) ==
  /\ calc' = [fn |-> "execute_single_agent", agent_name |-> agent_name,
              result |-> single_agent_result(agent_name, outcome)]
  /\ UNCHANGED <<wf_vars, conv_vars>>

Spec == Init /\ [][Next]_vars

\* single agent calls beside one full workflow
BypassNext ==
  \/ \E cd \in Intakes : execute_full_workflow(1, cd)
  \/ \E o \in SetupOutcomes : programme_setup_returns(1, o)
  \/ \E o \in DomainOutcomes : domain_knowledge_returns(1, o)
  \/ \E o \in ProfileOutcomes : client_profile_returns(1, o)
  \/ \E l \in MeetingsLookups, a \in AnalysisOutcomes : meetings_returns(1, l, a)
  \/ \E o \in InsightsOutcomes : actionable_insights_returns(1, o)
  \/ \E agent_name \in AgentNames : \E o \in SingleOutcomes(agent_name) :
        execute_single_agent(agent_name, o)

SpecBypass == Init /\ [][BypassNext]_vars

\* ======================================================================
\* Properties
\* ======================================================================
StageIndex(key) == CHOOSE i \in DOMAIN StageKeys : StageKeys[i] = key
StepIndex(step) == CHOOSE i \in DOMAIN StepNames : StepNames[i] = step
\* the current_step value that names the stage with key `key`
StepOf(key) == StepNames[StageIndex(key)]

Returned(r) == pc[r] = "returned"
\* the runs that were given workflow id `id`
Owners(id) == {r \in Runs : wid[r] = id}
\* the agent_results the caller of run r got back
ReturnedResults(r) ==
  IF ret[r].status = "error" THEN ret[r].partial_results ELSE ret[r].full_results
\* stage i of run r did not succeed: it returned an error tag, or it raised
StageDidNotSucceed(r, i) ==
  \/ /\ StageKeys[i] \in DOMAIN results[r]
     /\ results[r][StageKeys[i]].status # "success"
  \/ /\ failed_stage[r] = StageKeys[i]
     /\ StageKeys[i] \notin DOMAIN results[r]
FailedStages(r) == {i \in DOMAIN StageKeys : StageDidNotSucceed(r, i)}
\* run r ends its life in this step with an error result
FailsNow(r) == pc[r] # "returned" /\ pc'[r] = "returned" /\ ret'[r].status = "error"

\* C1: when a run has returned and stage k is its first stage that did not
\* succeed, the agent_results it leaves hold exactly the results of stages
\* 1..k-1 and the error-tagged result of stage k, and nothing for k+1..5.
C1_FailureLeavesExactPrefix ==
  \A r \in Runs :
    (Returned(r) /\ FailedStages(r) # {}) =>
      LET k == Min(FailedStages(r))
          left == ReturnedResults(r)
      IN  /\ DOMAIN left = {StageKeys[i] : i \in 1..k}
          /\ \A i \in 1..(k - 1) : left[StageKeys[i]] = results[r][StageKeys[i]]
          /\ left[StageKeys[k]].status = "error"

C4_AlwaysStructuredResult ==
  \A r \in Runs :
    /\ Returned(r) => ret[r].status \in {"completed", "error"}
    /\ (Returned(r) /\ ret[r].status = "error") =>
         /\ ret[r].workflow_id = wid[r]
         /\ failed_stage[r] # NoStage
    /\ ~Returned(r) => ret[r] = NoReturn

\* a run ended by a stage call that raised
C4_Witness ==
  \E r \in Runs :
    /\ Returned(r)
    /\ failed_stage[r] = "domain_knowledge"
    /\ "domain_knowledge" \notin DOMAIN results[r]
    /\ ret[r].status = "error"

Terminal(rec) == rec.status \in {"completed", "failed"}

\* C9 as stated: a completed or failed record never changes again and is
\* never removed, whatever the orchestrator does later.
C9_TerminalRecordsFrozen ==
  [][\A id \in DOMAIN workflow_state :
       Terminal(workflow_state[id]) =>
         /\ id \in DOMAIN workflow_state'
         /\ workflow_state'[id].status = workflow_state[id].status
         /\ workflow_state'[id].current_step = workflow_state[id].current_step
         /\ workflow_state'[id].agent_results
              = workflow_state[id].agent_results]_vars

\* C9 as amended: the same, as long as no other run has been given the
\* record's workflow id.
C9_TerminalRecordsFrozenUnshared ==
  [][\A id \in DOMAIN workflow_state :
       (Terminal(workflow_state[id]) /\ Cardinality(Owners(id)') <= 1) =>
         /\ id \in DOMAIN workflow_state'
         /\ workflow_state'[id].status = workflow_state[id].status
         /\ workflow_state'[id].current_step = workflow_state[id].current_step
         /\ workflow_state'[id].agent_results
              = workflow_state[id].agent_results]_vars

\* a finished record of one run, and a later run under another id that has
\* run to its end too
C9_Witness ==
  \E id \in DOMAIN workflow_state, r \in Runs :
    /\ Terminal(workflow_state[id])
    /\ Cardinality(Owners(id)) = 1
    /\ wid[r] \notin {id, NoId}
    /\ Returned(r)

C11_UpsertByCaseInsensitiveName ==
  \A i, j \in DOMAIN profiles :
     Lower(profiles[i].client_name) = Lower(profiles[j].client_name) => i = j

\* ======================================================================
\* The agents' helpers, called on their own
\* ======================================================================
\* Each action below is one call of a helper of an agent with inputs drawn
\* from a bounded set; calc records the inputs and what the call returned.
\* The helpers keep no state between calls, so a behaviour is a single call.
MaxTech == 2

\* tool names, as sequences of characters
TechWords == {<<"J", "a", "v", "a">>, <<"j", "a", "v", "a">>, <<"G", "o">>}
TechPieces == [pad : 0..1, word : TechWords]
SeqsUpTo(S, n) == UNION {[1..k -> S] : k \in 0..n}
\* str.split(',') gives at least one piece
TechStacks == SeqsUpTo(TechPieces, MaxTech) \ {Empty}
\* the tech_stack list of a stored profile
StoredTech == SeqsUpTo(TechWords, MaxTech)

NoDuplicates(s) == \A i, j \in DOMAIN s : s[i] = s[j] => i = j

\* ClientProfileAgent._enhance_profile, applied to a stored profile and then
\* once more to its own result with the same new tech stack
enhance_profile_call(current_tech, tech_stack) ==
  LET cd == [client_name |-> <<"g", "t">>, industry |-> "Automotive",
             problem_statement |-> "lead management",
             tech_stack |-> tech_stack]
      profile_data == [name |-> <<"G", "T">>, industry |-> "Automotive",
                       tech_stack |-> current_tech]
  IN  /\ calc = NoCalc
      /\ \E once \in enhance_profile(profile_data, cd) :
          \E twice \in enhance_profile(once, cd) :
             calc' = [fn |-> "_enhance_profile", current_tech |-> current_tech,
                      new_tech |-> split_and_strip(tech_stack),
                      once |-> once.tech_stack, twice |-> twice.tech_stack]
      /\ UNCHANGED <<wf_vars, conv_vars>>

\* ---------------------------------------------------- DomainKnowledgeAgent
\* self.knowledge_base: industry key -> domain info.  Only recommended_tools
\* is read by the helpers modelled here; the lists are cut to the tools of
\* TechWords.
knowledge_base ==
  (<<"a", "u", "t", "o", "m", "o", "t", "i", "v", "e">> :> [recommended_tools |-> <<<<"J", "a", "v", "a">>, <<"G", "o">>>>])
  @@ (<<"h", "e", "a", "l", "t", "h", "c", "a", "r", "e">> :> [recommended_tools |-> <<<<"G", "o">>>>])
  @@ (<<"r", "e", "t", "a", "i", "l">> :> [recommended_tools |-> <<<<"J", "a", "v", "a">>>>])

\* dict.get(key, {}): the empty dict when the key is absent
NoInfo == << >>
knowledge_base_get(industry_key) ==
  IF industry_key \in DOMAIN knowledge_base THEN knowledge_base[industry_key]
  ELSE NoInfo

generate_generic_knowledge == [recommended_tools |-> <<<<"G", "o">>>>]

\* scores are kept in hundredths: 90 stands for 0.9
calculate_confidence_score(industry_key, domain_info) ==
  IF industry_key \in DOMAIN knowledge_base THEN 90
  ELSE IF domain_info # NoInfo THEN 60
  ELSE 30

\* _analyze_tech_stack: compatibility_score =
\* len(compatible_tools) / max(len(recommended_tools), 1), kept as a fraction
Max(a, b) == IF a >= b THEN a ELSE b

analyze_tech_stack(tech_stack, domain_info) ==
  LET tech_items == [i \in DOMAIN tech_stack |-> Lower(Strip(tech_stack[i]))]
      tools == IF domain_info = NoInfo THEN Empty
               ELSE domain_info.recommended_tools
      recommended_tools == [i \in DOMAIN tools |-> Lower(tools[i])]
      compatible_tools ==
        SelectSeq(tech_items, LAMBDA tool : tool \in Range(recommended_tools))
      missing_tools ==
        SelectSeq(recommended_tools, LAMBDA tool : tool \notin Range(tech_items))
  IN  [compatible_tools |-> compatible_tools,
       missing_recommended_tools |-> SubSeq(missing_tools, 1, Min({3, Len(missing_tools)})),
       compatibility_score |-> [num |-> Len(compatible_tools),
                                den |-> Max(Len(recommended_tools), 1)]]

\* faulty variant: the industry is looked up as typed
process_domain_knowledge_as_typed(industry, tech_stack) ==
  LET industry_key == industry
      found == knowledge_base_get(industry_key)
      domain_info == IF found = NoInfo THEN generate_generic_knowledge ELSE found
  IN  [status |-> "success", industry |-> industry,
       tech_analysis |-> analyze_tech_stack(tech_stack, domain_info),
       confidence_score |-> calculate_confidence_score(industry_key, domain_info)]

\* process_domain_knowledge, lines 73..106
process_domain_knowledge(industry, tech_stack) ==
  LET industry_key == Lower(industry)
      found == knowledge_base_get(industry_key)
      domain_info == IF found = NoInfo THEN generate_generic_knowledge ELSE found
  IN  [status |-> "success", industry |-> industry,
       tech_analysis |-> analyze_tech_stack(tech_stack, domain_info),
       confidence_score |-> calculate_confidence_score(industry_key, domain_info)]

Industries ==
  { <<"a", "u", "t", "o", "m", "o", "t", "i", "v", "e">>,
    <<"A", "u", "t", "o", "m", "o", "t", "i", "v", "e">>,
    <<"A", "U", "T", "O", "M", "O", "T", "I", "V", "E">>,
    <<"H", "e", "a", "l", "t", "h", "c", "a", "r", "e">>,
    <<"r", "e", "t", "a", "i", "l">>,
    <<"R", "e", "t", "a", "i", "l", " ">>,
    <<"A", "u", "t", "o">>,
    <<"f", "i", "n", "a", "n", "c", "e">>,
    <<>> }

\* recommended_tools lists: no tool twice
RecommendedLists == {s \in SeqsUpTo(TechWords, MaxTech) : NoDuplicates(s)}

process_domain_knowledge_call(industry, tech_stack) ==
  /\ calc = NoCalc
  /\ calc' = [fn |-> "process_domain_knowledge", industry |-> industry,
              result |-> process_domain_knowledge(industry, tech_stack)]
  /\ UNCHANGED <<wf_vars, conv_vars>>

analyze_tech_stack_call(tech_stack, recommended_tools) ==
  /\ calc = NoCalc
  /\ calc' = [fn |-> "_analyze_tech_stack", tech_stack |-> tech_stack,
              recommended_tools |-> recommended_tools,
              analysis |-> analyze_tech_stack(tech_stack,
                              [recommended_tools |-> recommended_tools])]
  /\ UNCHANGED <<wf_vars, conv_vars>>

\* ------------------------------------------------- ActionableInsightsAgent
\* A float is kept as a fraction num/den of integers, den > 0.
Frac(n, d) == [num |-> n, den |-> d]
Less(a, b) == a.num * b.den < b.num * a.den
AtLeast(a, b) == ~Less(a, b)

RECURSIVE SumSeq(_)
SumSeq(s) == IF s = Empty THEN 0 ELSE s[1] + SumSeq(Tail(s))

\* risk_values, in tenths
risk_values == [low |-> 3, medium |-> 6, high |-> 9]

\* faulty variant: an empty risk list scores zero
calculate_risk_score_from_zero(risks) ==
  IF risks = Empty THEN Frac(0, 10)
  ELSE LET total_score == SumSeq([i \in DOMAIN risks |-> risk_values[risks[i].probability]])
           mean == Frac(total_score, 10 * Len(risks))
       IN  IF Less(Frac(1, 1), mean) THEN Frac(1, 1) ELSE mean

\* _calculate_risk_score: 0.2 for no risk, else min(total / len, 1.0)
calculate_risk_score(risks) ==
  IF risks = Empty THEN Frac(2, 10)
  ELSE LET total_score == SumSeq([i \in DOMAIN risks |-> risk_values[risks[i].probability]])
           mean == Frac(total_score, 10 * Len(risks))
       IN  IF Less(Frac(1, 1), mean) THEN Frac(1, 1) ELSE mean

categorize_risk_level(risk_score) ==
  IF AtLeast(risk_score, Frac(7, 10)) THEN "high"
  ELSE IF AtLeast(risk_score, Frac(4, 10)) THEN "medium"
  ELSE "low"

\* _assess_risks: the four rules, in the order the code appends their risks
assess_risks(compatibility_score, complexity, category, industry) ==
  LET technical == IF Less(compatibility_score, Frac(1, 2))
                   THEN <<[category |-> "technical", probability |-> "medium"]>>
                   ELSE Empty
      complex == IF complexity = "high"
                 THEN <<[category |-> "complexity", probability |-> "medium"]>>
                 ELSE Empty
      stakeholder == IF category = "negative"
                     THEN <<[category |-> "stakeholder", probability |-> "medium"]>>
                     ELSE Empty
      compliance == IF Lower(industry) = <<"h", "e", "a", "l", "t", "h", "c", "a", "r", "e">>
                    THEN <<[category |-> "compliance", probability |-> "high"]>>
                    ELSE Empty
      risks == technical \o complex \o stakeholder \o compliance
      risk_score == calculate_risk_score(risks)
  IN  [risks |-> risks, overall_risk_score |-> risk_score,
       risk_level |-> categorize_risk_level(risk_score)]

\* faulty variant: the boundaries are exclusive
categorize_health_level_strict(health_score) ==
  IF Less(Frac(80, 1), health_score) THEN "excellent"
  ELSE IF Less(Frac(60, 1), health_score) THEN "good"
  ELSE IF Less(Frac(40, 1), health_score) THEN "fair"
  ELSE "poor"

categorize_health_level(health_score) ==
  IF AtLeast(health_score, Frac(80, 1)) THEN "excellent"
  ELSE IF AtLeast(health_score, Frac(60, 1)) THEN "good"
  ELSE IF AtLeast(health_score, Frac(40, 1)) THEN "fair"
  ELSE "poor"

RECURSIVE GCD(_, _)
GCD(a, b) == IF b = 0 THEN a ELSE GCD(b, a % b)

\* the same fraction in lowest terms
Norm(a) ==
  LET g == GCD(IF a.num < 0 THEN 0 - a.num ELSE a.num, a.den)
  IN  Frac(a.num \div g, a.den \div g)
Plus(a, b) == Norm(Frac(a.num * b.den + b.num * a.den, a.den * b.den))
Times(a, k) == Norm(Frac(a.num * k, a.den))
Over(a, k) == Norm(Frac(a.num, a.den * k))

\* ClientProfileAgent._calculate_profile_completeness.  A profile is given
\* by the required fields it fills, the number of its stakeholders and
\* whether it has the two context entries.
required_fields ==
  {"name", "industry", "founded", "region", "stakeholders", "tech_stack",
   "primary_challenge"}

calculate_profile_completeness(profile) ==
  LET completed_fields == Cardinality(profile.filled \cap required_fields)
      base_score == Frac(completed_fields, Cardinality(required_fields))
      bonus == Plus(Plus(IF profile.current_project THEN Frac(1, 10) ELSE Frac(0, 1),
                         IF profile.business_context THEN Frac(1, 10) ELSE Frac(0, 1)),
                    IF profile.stakeholders >= 2 THEN Frac(5, 100) ELSE Frac(0, 1))
      total == Plus(base_score, bonus)
  IN  IF Less(Frac(1, 1), total) THEN Frac(1, 1) ELSE total

\* profiles as _enhance_profile leaves them: both context entries are set and
\* tech_stack is a non-empty list
EnhancedProfiles ==
  { [filled |-> required_fields, stakeholders |-> 3,
     current_project |-> TRUE, business_context |-> TRUE],
    [filled |-> {"name", "industry", "tech_stack"}, stakeholders |-> 0,
     current_project |-> TRUE, business_context |-> TRUE],
    [filled |-> {"tech_stack"}, stakeholders |-> 0,
     current_project |-> TRUE, business_context |-> TRUE],
    [filled |-> {"industry", "stakeholders", "tech_stack"}, stakeholders |-> 2,
     current_project |-> TRUE, business_context |-> TRUE] }

\* what the meetings stage hands over: an error result has no
\* meeting_analysis entry, a success result carries the polarity
NoPolarity == << >>
Polarities ==
  {Frac(0 - 1, 1), Frac(0 - 1, 10), Frac(0, 1), Frac(1, 10), Frac(1, 2), Frac(1, 1)}

\* _calculate_project_health_score, lines 383..418, from the three earlier
\* results; confidence_score arrives in hundredths
calculate_project_health_score(domain_result, completeness_score, polarity) ==
  LET tech_score == domain_result.tech_analysis.compatibility_score
      technical == Times(tech_score, 100)
      sentiment_polarity == IF polarity = NoPolarity THEN Frac(0, 1) ELSE polarity
      shifted == Times(Plus(sentiment_polarity, Frac(1, 1)), 50)
      sentiment_score == IF Less(shifted, Frac(0, 1)) THEN Frac(0, 1) ELSE shifted
      completeness == Times(completeness_score, 100)
      confidence == Frac(domain_result.confidence_score, 1)
      overall_score ==
        Over(Plus(Plus(Plus(technical, sentiment_score), completeness), confidence), 4)
  IN  [overall_score |-> overall_score,
       health_level |-> categorize_health_level(overall_score),
       component_scores |->
         [technical_compatibility |-> technical,
          stakeholder_sentiment |-> sentiment_score,
          profile_completeness |-> completeness,
          domain_knowledge |-> confidence]]

\* compatibility scores _analyze_tech_stack can hand over
CompatibilityScores == {Frac(0, 1), Frac(1, 2), Frac(1, 1), Frac(2, 1)}
ComplexityLevels == {"low", "medium", "high"}
SentimentCategories == {"positive", "neutral", "negative"}
\* health scores from 0 to 100 in steps of a tenth
HealthScores == {Frac(n, 10) : n \in 0..1000}

assess_risks_call(compatibility_score, complexity, category, industry) ==
  /\ calc = NoCalc
  /\ calc' = [fn |-> "_assess_risks",
              assessment |-> assess_risks(compatibility_score, complexity,
                                          category, industry)]
  /\ UNCHANGED <<wf_vars, conv_vars>>

categorize_health_level_call(health_score) ==
  /\ calc = NoCalc
  /\ calc' = [fn |-> "_categorize_health_level", health_score |-> health_score,
              health_level |-> categorize_health_level(health_score)]
  /\ UNCHANGED <<wf_vars, conv_vars>>

calculate_project_health_score_call(industry, tech_stack, profile, polarity) ==
  /\ calc = NoCalc
  /\ calc' = [fn |-> "_calculate_project_health_score",
              health |-> calculate_project_health_score(
                           process_domain_knowledge(industry, tech_stack),
                           calculate_profile_completeness(profile), polarity)]
  /\ UNCHANGED <<wf_vars, conv_vars>>

\* ------------------------------------------------------------ MeetingsAgent
\* A polarity is a number of ten-thousandths in [-1, 1].
PolarityUnit == 10000
Abs(n) == IF n < 0 THEN 0 - n ELSE n

\* round(polarity, 3), for a polarity that is not halfway between two
\* thousandths
round3(polarity) ==
  LET nearest == ((Abs(polarity) + 5) \div 10) * 10
  IN  IF polarity < 0 THEN 0 - nearest ELSE nearest

\* faulty variant: the thresholds belong to positive and negative
analyze_sentiment_inclusive(polarity) ==
  LET category == IF polarity * 10 >= PolarityUnit THEN "positive"
                  ELSE IF polarity * 10 <= 0 - PolarityUnit THEN "negative"
                  ELSE "neutral"
  IN  [polarity |-> round3(polarity), category |-> category,
       confidence |-> Abs(polarity)]

\* MeetingsAgent._analyze_sentiment, lines 73..98: the category is taken from
\* the polarity before it is rounded
analyze_sentiment(polarity) ==
  LET category == IF polarity * 10 > PolarityUnit THEN "positive"
                  ELSE IF polarity * 10 < 0 - PolarityUnit THEN "negative"
                  ELSE "neutral"
  IN  [polarity |-> round3(polarity), category |-> category,
       confidence |-> Abs(polarity)]

\* DatabaseManager.analyze_sentiment: the pair (polarity, category)
db_analyze_sentiment(polarity) ==
  <<polarity,
    IF polarity * 10 > PolarityUnit THEN "positive"
    ELSE IF polarity * 10 < 0 - PolarityUnit THEN "negative"
    ELSE "neutral">>

\* polarities TextBlob can give: both ends, and every ten-thousandth around
\* the two thresholds that round() does not have to break a tie for
TextBlobPolarities ==
  {0 - PolarityUnit, PolarityUnit}
    \cup {p \in (0 - 1200)..1200 : Abs(p) % 10 # 5}

analyze_sentiment_call(polarity) ==
  /\ calc = NoCalc
  /\ calc' = [fn |-> "_analyze_sentiment", raw_polarity |-> polarity,
              sentiment |-> analyze_sentiment(polarity),
              stored |-> db_analyze_sentiment(polarity)]
  /\ UNCHANGED <<wf_vars, conv_vars>>

\* _extract_action_items.  A transcript is given by the places where one of
\* the action patterns matches, in reading order: the index of the pattern
\* and the text its group ([^.!?]+) captures, as typed.  re.findall with
\* pattern p yields the captures of the places of p, in reading order.
MaxClauses == 7

action_patterns ==
  <<"action item", "todo", "follow-up", "next step", "need to", "should",
    "will", "must">>

\* str.upper(), letter by letter
UpperTable ==
  [c \in Range(LowerLetters) |->
     UpperLetters[CHOOSE i \in DOMAIN LowerLetters : LowerLetters[i] = c]]

UpperChar(c) == IF c \in DOMAIN UpperTable THEN UpperTable[c] ELSE c
Upper(s) == [i \in DOMAIN s |-> UpperChar(s[i])]

\* str.capitalize(): first character upper case, the rest lower case
Capitalize(s) ==
  IF s = Empty THEN s ELSE <<UpperChar(s[1])>> \o Lower(Tail(s))

\* re.findall(pattern, transcript_lower): the transcript is lower-cased first
findall(p, transcript) ==
  LET places == SelectSeq([i \in DOMAIN transcript |->
                             [at |-> i, clause |-> transcript[i]]],
                          LAMBDA m : m.clause.trigger = p)
  IN  [k \in DOMAIN places |->
         [pad |-> places[k].clause.text.pad,
          word |-> Lower(places[k].clause.text.word),
          pattern |-> p, at |-> places[k].at]]

RECURSIVE Flatten(_)
Flatten(ss) == IF ss = Empty THEN Empty ELSE ss[1] \o Flatten(Tail(ss))

\* the first loop: one candidate per match longer than 10 characters; found
\* keeps which match the candidate came from
candidates(transcript) ==
  LET matches == Flatten([p \in DOMAIN action_patterns |-> findall(p, transcript)])
      long == SelectSeq(matches, LAMBDA match : Len(Strip(match)) > 10)
  IN  [k \in DOMAIN long |->
         [item |-> Capitalize(Strip(long[k])),
          found |-> [pattern |-> long[k].pattern, at |-> long[k].at]]]

\* the second loop: keep an item unless its lower-cased text was seen
RECURSIVE unique(_, _)
unique(action_items, seen_items) ==
  IF action_items = Empty THEN Empty
  ELSE LET item == Head(action_items)
           item_text == Lower(item.item)
       IN  IF item_text \notin seen_items
           THEN <<item>> \o unique(Tail(action_items), seen_items \cup {item_text})
           ELSE unique(Tail(action_items), seen_items)

\* faulty variant: the list is not cut
extract_action_items_uncut(transcript) ==
  unique(candidates(transcript), {})

\* unique_items[:5]
extract_action_items(transcript) ==
  LET unique_items == unique(candidates(transcript), {})
  IN  SubSeq(unique_items, 1, Min({5, Len(unique_items)}))

\* the text of the i-th place when it is a text of its own; the second one
\* is too short to count
OwnText(i) ==
  IF i = 2 THEN <<"o", "k", " ", "t", "h", "e", "n">>
  ELSE <<"r", "e", "v", "i", "e", "w", " ", "i", "t", "e", "m", " ">> \o <<LowerLetters[i]>>

\* A transcript of up to MaxClauses places is drawn by choosing for every
\* place the pattern that matches ("todo" or "must") and whether the place
\* captures a text of its own or the first place's text again, typed in
\* capitals and followed by a blank.
TranscriptShapes ==
  UNION {[1..n -> {2, 8} \X BOOLEAN] : n \in 0..MaxClauses}

Transcript(shape) ==
  [i \in DOMAIN shape |->
     [trigger |-> shape[i][1],
      text |-> IF shape[i][2] THEN [pad |-> 1, word |-> Upper(OwnText(1))]
               ELSE [pad |-> 0, word |-> OwnText(i)]]]

extract_action_items_call(transcript) ==
  /\ calc = NoCalc
  /\ calc' = [fn |-> "_extract_action_items",
              action_items |-> candidates(transcript),
              unique_items |-> extract_action_items(transcript)]
  /\ UNCHANGED <<wf_vars, conv_vars>>

\* _calculate_engagement_metrics / _calculate_engagement_score.  A transcript
\* is given by what the code reads off it: its number of words, of '?' and
\* of '!', and the digits that follow the first "engagement" in it, if any.
MaxMarks == 5
\* user messages in one conversation, and the conversational ones among them
MaxTurns == 7
MaxChat == 1

FracMin(a, b) == IF Less(b, a) THEN b ELSE a

\* int(engagement_match.group(1)) if engagement_match else None
NoMention == << >>
Mentions == {NoMention, <<0>>, <<80>>, <<100>>, <<150>>}
WordCounts == {0, 9, 100, 200, 450}

\* a mention or a mark is part of a word
EngagementTranscripts ==
  {t \in [words : WordCounts, questions : 0..MaxMarks,
          exclamations : 0..MaxMarks, mention : Mentions] :
     (t.mention # NoMention \/ t.questions + t.exclamations > 0) => t.words > 0}

calculate_engagement_score(word_count, question_count, exclamation_count, engagement_percentage) ==
  IF engagement_percentage # NoMention
  THEN Norm(Frac(engagement_percentage[1], 100))
  ELSE LET base_score == FracMin(Frac(word_count, 200), Frac(1, 1))
           question_bonus == FracMin(Frac(question_count, 10), Frac(3, 10))
           exclamation_bonus == FracMin(Frac(exclamation_count * 5, 100), Frac(2, 10))
           total_score == Plus(Plus(base_score, question_bonus), exclamation_bonus)
       IN  FracMin(total_score, Frac(1, 1))

calculate_engagement_metrics(transcript) ==
  [engagement_percentage |-> transcript.mention,
   word_count |-> transcript.words,
   question_count |-> transcript.questions,
   exclamation_count |-> transcript.exclamations,
   engagement_score |->
     calculate_engagement_score(transcript.words, transcript.questions,
                                transcript.exclamations, transcript.mention)]

calculate_engagement_metrics_call(transcript) ==
  /\ calc = NoCalc
  /\ calc' = [fn |-> "_calculate_engagement_metrics",
              metrics |-> calculate_engagement_metrics(transcript)]
  /\ UNCHANGED <<wf_vars, conv_vars>>

\* ---------------------------------------------------- analyze_meeting
\* TextBlob(transcript).sentiment: the library raises, or gives a polarity and
\* a subjectivity (both in ten-thousandths)
BlobOutcomes ==
  {[raises |-> TRUE]}
    \cup {[raises |-> FALSE, polarity |-> p, subjectivity |-> s] :
            p \in {0 - PolarityUnit, 0 - 2000, 0, 1000, 2000, PolarityUnit},
            s \in {0, 5000, PolarityUnit}}

\* an exception on its way up
Raised == [raised |-> TRUE]

\* faulty variant: no try around the library call
analyze_sentiment_unguarded(blob) ==
  IF blob.raises THEN Raised
  ELSE LET sentiment == analyze_sentiment(blob.polarity)
       IN  [polarity |-> sentiment.polarity,
            subjectivity |-> round3(blob.subjectivity),
            category |-> sentiment.category,
            confidence |-> sentiment.confidence]

\* MeetingsAgent._analyze_sentiment, lines 70..117, with its except branch
analyze_sentiment_guarded(blob) ==
  IF blob.raises
  THEN [polarity |-> 0, subjectivity |-> 0, category |-> "neutral",
        confidence |-> 0, error |-> "Sentiment analysis failed"]
  ELSE LET sentiment == analyze_sentiment(blob.polarity)
       IN  [polarity |-> sentiment.polarity,
            subjectivity |-> round3(blob.subjectivity),
            category |-> sentiment.category,
            confidence |-> sentiment.confidence]

\* transcripts: the places of the action patterns and what the engagement
\* metrics read
MeetingTranscripts ==
  {[clauses |-> Transcript(shape), marks |-> marks] :
     shape \in {s \in TranscriptShapes : Len(s) <= 1},
     marks \in {t \in EngagementTranscripts : t.questions = 0 /\ t.exclamations = 0}}

\* MeetingsAgent.analyze_meeting, lines 17..68: an exception that reaches its
\* try block gives the error result
analyze_meeting(blob, transcript) ==
  LET sentiment_result == analyze_sentiment_guarded(blob)
  IN  IF sentiment_result = Raised
      THEN ErrorResult("meetings")
      ELSE [status |-> "success", agent |-> "meetings",
            meeting_analysis |->
              [sentiment |-> sentiment_result,
               action_items |-> extract_action_items(transcript.clauses),
               engagement_metrics |-> calculate_engagement_metrics(transcript.marks)]]

analyze_meeting_call(blob, transcript) ==
  /\ calc = NoCalc
  /\ calc' = [fn |-> "analyze_meeting", blob |-> blob,
              result |-> analyze_meeting(blob, transcript)]
  /\ UNCHANGED <<wf_vars, conv_vars>>

\* ------------------------------------- build_client_profile, lines 39..55
\* A stored or newly created profile, by the entries the completeness check
\* reads: a list of stakeholders is filled exactly when it is non-empty.
ProfileData ==
  { [filled |-> filled, stakeholders |-> stakeholders,
     current_project |-> current_project, business_context |-> business_context]
    : filled \in SUBSET required_fields, stakeholders \in 0..3,
      current_project \in BOOLEAN, business_context \in BOOLEAN }

StoredProfileData ==
  {p \in ProfileData : ("stakeholders" \in p.filled) = (p.stakeholders > 0)}

\* _enhance_profile, by the same entries: tech_stack becomes a list with at
\* least one string, current_project and business_context non-empty dicts
enhanced_entries(profile_data) ==
  [filled |-> profile_data.filled \cup {"tech_stack"},
   stakeholders |-> profile_data.stakeholders,
   current_project |-> TRUE, business_context |-> TRUE]

\* faulty variant: the score of the profile as it was before the enhancement
profile_result_stale(profile_data, profile_exists) ==
  [status |-> "success", agent |-> "client_profile",
   client_profile |-> enhanced_entries(profile_data),
   completeness_score |-> calculate_profile_completeness(profile_data),
   profile_exists |-> profile_exists]

\* lines 39..55: enhance, score the enhanced profile, build the result
profile_result(profile_data, profile_exists) ==
  LET enhanced_profile == enhanced_entries(profile_data)
      completeness_score == calculate_profile_completeness(enhanced_profile)
  IN  [status |-> "success", agent |-> "client_profile",
       client_profile |-> enhanced_profile,
       completeness_score |-> completeness_score,
       profile_exists |-> profile_exists]

build_client_profile_call(profile_data, profile_exists) ==
  /\ calc = NoCalc
  /\ calc' = [fn |-> "build_client_profile", profile_data |-> profile_data,
              result |-> profile_result(profile_data, profile_exists)]
  /\ UNCHANGED <<wf_vars, conv_vars>>

\* ------------------------------------------- ConversationalSetupAgent
\* None, and the empty dict an extraction gives when nothing was found
None == << >>
Get(d, key) == IF key \in DOMAIN d THEN d[key] ELSE None

\* "p in s" for strings
Contains(p, s) == \E i \in 0..(Len(s) - Len(p)) : SubSeq(s, i + 1, i + Len(p)) = p
\* s.replace(c, "")
Without(s, c) == SelectSeq(s, LAMBDA x : x # c)
RECURSIVE strip(_)
strip(s) ==
  IF s = << >> THEN s
  ELSE IF Head(s) = " " THEN strip(Tail(s))
  ELSE IF s[Len(s)] = " " THEN strip(SubSeq(s, 1, Len(s) - 1))
  ELSE s
\* [tech.strip() for tech in s.split(',')]
RECURSIVE split_strip(_)
split_strip(s) ==
  IF \E i \in DOMAIN s : s[i] = ","
  THEN LET i == Min({j \in DOMAIN s : s[j] = ","})
       IN  <<strip(SubSeq(s, 1, i - 1))>> \o split_strip(SubSeq(s, i + 1, Len(s)))
  ELSE <<strip(s)>>

\* _is_conversational_message, lines 95..119
conversational_patterns ==
  <<<<"h", "e", "l", "l", "o">>,
     <<"h", "i">>,
     <<"h", "e", "y">>,
     <<"a", "r", "e", " ", "y", "o", "u", " ", "t", "h", "e", "r", "e">>,
     <<"c", "a", "n", " ", "y", "o", "u", " ", "h", "e", "a", "r", " ", "m", "e">>,
     <<"?">>,
     <<"y", "e", "s">>,
     <<"n", "o">>,
     <<"o", "k">>,
     <<"o", "k", "a", "y">>,
     <<"t", "h", "a", "n", "k", "s">>,
     <<"t", "h", "a", "n", "k", " ", "y", "o", "u">>,
     <<"w", "h", "a", "t">>,
     <<"h", "u", "h">>,
     <<"s", "o", "r", "r", "y">>,
     <<"e", "x", "c", "u", "s", "e", " ", "m", "e">>,
     <<"w", "a", "i", "t">>,
     <<"h", "o", "l", "d", " ", "o", "n">>,
     <<"i", " ", "d", "o", "n", "'", "t", " ", "u", "n", "d", "e", "r", "s", "t", "a", "n", "d">>,
     <<"c", "a", "n", " ", "y", "o", "u", " ", "r", "e", "p", "e", "a", "t">>,
     <<"w", "h", "a", "t", " ", "d", "i", "d", " ", "y", "o", "u", " ", "s", "a", "y">>,
     <<"p", "a", "r", "d", "o", "n">>,
     <<"c", "o", "m", "e", " ", "a", "g", "a", "i", "n">>>>

is_conversational_message(message) ==
  LET message_lower == strip(Lower(message))
  IN  \/ Len(message_lower) <= 3
      \/ /\ "?" \in Range(message)
         /\ Len(strip(Without(message_lower, "?"))) <= 10
      \/ \E i \in DOMAIN conversational_patterns :
            Contains(conversational_patterns[i], message_lower)

\* lines 196..211: the reply to a conversational message
conversational_response(conversation_stage, user_message) ==
  IF \E word \in {<<"h", "e", "l", "l", "o">>, <<"h", "i">>, <<"h", "e", "y">>, <<"a", "r", "e", " ", "y", "o", "u", " ", "t", "h", "e", "r", "e">>} : Contains(word, Lower(user_message))
  THEN CASE conversation_stage = "greeting" -> "Hello! I'm here to help"
         [] conversation_stage = "gather_basic_info" -> "Yes, I'm here! challenges"
         [] conversation_stage = "gather_technical_info" -> "I'm here! technology"
         [] conversation_stage = "gather_project_details" -> "Yes, I'm listening!"
         [] OTHER -> "I'm here and ready to help!"
  ELSE IF "?" \in Range(user_message) /\ Len(strip(user_message)) <= 10
  THEN "I'm here! Please let me know"
  ELSE "I'm listening! Please continue"

\* ClientInfo and ConversationState as constructed, lines 14..33
NewClientInfo ==
  [company_name |-> None, industry |-> None, problem_statement |-> None,
   tech_stack |-> None, timeline |-> None, budget |-> None, team_size |-> None,
   location |-> None, stakeholders |-> None, completeness_score |-> Frac(0, 1)]

ClientInfoFields ==
  {"company_name", "industry", "problem_statement", "tech_stack", "timeline",
   "budget", "team_size", "location", "stakeholders"}

\* start_conversation, lines 74..93
initial_state ==
  [messages |-> <<[role |-> "assistant", content |-> "Hello! I'm here to help"]>>,
   client_info |-> NewClientInfo, conversation_stage |-> "greeting",
   is_complete |-> FALSE]

\* _calculate_completeness, lines 574..587
calculate_completeness(client_info) ==
  Frac(Cardinality({field \in {"company_name", "industry", "problem_statement",
                               "tech_stack", "timeline"} :
                      client_info[field] # None}), 5)

\* which extraction process_message asks for, by stage (lines 215..283)
ExtractionType(conversation_stage) ==
  CASE conversation_stage = "greeting" -> "company_and_industry"
    [] conversation_stage = "gather_basic_info" -> "problem_statement"
    [] conversation_stage = "gather_technical_info" -> "tech_stack"
    [] conversation_stage = "gather_project_details" -> "project_details"
    [] conversation_stage = "clarify_missing_info" -> "project_details"
    [] OTHER -> "none"

\* JSON objects the model can answer with; an integer is written by its digits
Extractions(extraction_type) ==
  CASE extraction_type = "company_and_industry" ->
         { << >>, [company_name |-> <<"A", "c", "m", "e">>],
           [company_name |-> <<"A", "c", "m", "e">>, industry |-> <<"r", "e", "t", "a", "i", "l">>] }
    [] extraction_type = "problem_statement" ->
         { << >>, [problem_statement |-> <<"s", "l", "o", "w">>] }
    [] extraction_type = "tech_stack" ->
         { << >>, [tech_stack |-> <<<<"G", "o">>>>] }
    [] extraction_type = "project_details" ->
         { << >>, [budget |-> <<"5", "k">>],
           [timeline |-> <<"M", "a", "y">>, budget |-> <<"5", "k">>, team_size |-> <<"9">>,
            location |-> <<"R", "o", "m", "e">>] }
    [] OTHER -> { << >> }

\* the chain either raises or answers
LLMOutcomes(extraction_type) ==
  IF extraction_type = "none" THEN {[raises |-> FALSE, result |-> << >>]}
  ELSE {[raises |-> TRUE, result |-> << >>]}
         \cup {[raises |-> FALSE, result |-> r] : r \in Extractions(extraction_type)}

\* _extract_information_with_llm, lines 167..179: a failure gives {}
extract_information_with_llm(outcome) ==
  IF outcome.raises THEN << >> ELSE outcome.result

Or(new, old) == IF new # None THEN new ELSE old

\* lines 212..322: an informational message, by stage; confirmed tells
\* whether lines 318..319 ran
informational(state, user_message, extracted_info) ==
  LET info == state.client_info
      stage == state.conversation_stage
      get(key) == Get(extracted_info, key)
  IN  CASE stage = "greeting" ->
             LET ci == [info EXCEPT !.company_name = Or(get("company_name"), @),
                                    !.industry = Or(get("industry"), @)]
             IN  [state |-> [state EXCEPT !.client_info = ci,
                               !.conversation_stage =
                                  IF ci.company_name # None /\ ci.industry # None
                                  THEN "gather_basic_info" ELSE @],
                  response |-> IF ci.company_name # None /\ ci.industry # None
                               THEN "Great! So you're"
                               ELSE IF ci.company_name # None THEN "Thank you"
                               ELSE IF ci.industry # None THEN "Great! I see"
                               ELSE "I'd love to learn more",
                  confirmed |-> FALSE]
        [] stage = "gather_basic_info" ->
             [state |-> [state EXCEPT !.client_info.problem_statement =
                                         Or(get("problem_statement"), user_message),
                                      !.conversation_stage = "gather_technical_info"],
              response |-> "Thank you for explaining", confirmed |-> FALSE]
        [] stage = "gather_technical_info" ->
             [state |-> [state EXCEPT !.client_info.tech_stack =
                                         Or(get("tech_stack"), split_strip(user_message)),
                                      !.conversation_stage = "gather_project_details"],
              response |-> "Excellent! I understand", confirmed |-> FALSE]
        [] stage = "gather_project_details" ->
             LET c1 == [info EXCEPT !.timeline = Or(get("timeline"), @),
                                    !.budget = Or(get("budget"), @),
                                    !.team_size = Or(get("team_size"), @),
                                    !.location = Or(get("location"), @)]
                 c2 == IF get("timeline") = None /\ get("budget") = None
                       THEN [c1 EXCEPT !.timeline = user_message] ELSE c1
             IN  [state |-> [state EXCEPT
                               !.client_info = [c2 EXCEPT !.completeness_score =
                                                             calculate_completeness(c2)],
                               !.conversation_stage = "clarify_missing_info"],
                  response |-> "Thank you for the project details", confirmed |-> FALSE]
        [] stage = "clarify_missing_info" ->
             LET c1 == [info EXCEPT
                          !.team_size = IF @ = None THEN Or(get("team_size"), @) ELSE @,
                          !.location = IF @ = None THEN Or(get("location"), @) ELSE @]
                 c2 == IF c1.team_size = None /\ c1.location = None
                       THEN [c1 EXCEPT !.location = user_message] ELSE c1
             IN  [state |-> [state EXCEPT
                               !.client_info = [c2 EXCEPT !.completeness_score =
                                                             calculate_completeness(c2)],
                               !.conversation_stage = "summarize_and_confirm"],
                  response |-> "Perfect! Let me summarize", confirmed |-> FALSE]
        [] stage = "summarize_and_confirm" ->
             IF Contains(<<"y", "e", "s">>, Lower(user_message)) \/ Contains(<<"c", "o", "r", "r", "e", "c", "t">>, Lower(user_message))
             THEN [state |-> [state EXCEPT !.conversation_stage = "complete",
                                           !.is_complete = TRUE],
                   response |-> "Excellent! I have all the information", confirmed |-> TRUE]
             ELSE [state |-> [state EXCEPT !.conversation_stage = "gather_basic_info"],
                   response |-> "No problem!", confirmed |-> FALSE]
        [] OTHER -> [state |-> state, response |-> "", confirmed |-> FALSE]

\* messages a user types
UserMessages ==
  { <<"h", "e", "l", "l", "o", "?">>, <<"y", "e", "s">>, <<"c", "o", "r", "r", "e", "c", "t">>, <<"J", "a", "v", "a", ",", " ", "G", "o">> }

\* longer messages, for the classification alone
MoreMessages ==
  { <<"a", "r", "e", " ", "y", "o", "u", " ", "t", "h", "e", "r", "e", "?">>, <<"o", "k">>, <<"h", "i">>, <<"Y", "e", "s", ",", " ", "t", "h", "a", "t", " ", "i", "s", " ", "a", "l", "l">>, <<"t", "h", "i", "s", " ", "i", "s", " ", "c", "o", "r", "r", "e", "c", "t">>, <<"n", "o", "t", "h", "i", "n", "g", " ", "m", "o", "r", "e">>, <<"A", "c", "m", "e", ",", " ", "a", " ", "r", "e", "t", "a", "i", "l", "e", "r">>, <<"a", "n", "d", " ", "t", "h", "e", " ", "c", "o", "s", "t", " ", "?">>, << >> }

\* _is_conversational_message of every message above
IsConversational ==
  [message \in UserMessages \cup MoreMessages |-> is_conversational_message(message)]

\* the conversational messages among the user's messages so far
Chats(messages) ==
  Cardinality({i \in DOMAIN messages :
                 /\ messages[i].role = "user"
                 /\ IsConversational[messages[i].content]})

\* faulty variant: every message is handled by the stage
handle_message_by_stage(state, user_message, outcome) ==
  informational(state, user_message, extract_information_with_llm(outcome))

\* process_message, lines 194..322: the branch taken, before the reply is
\* appended
handle_message(state, user_message, outcome) ==
  IF IsConversational[user_message]
  THEN [state |-> state,
        response |-> conversational_response(state.conversation_stage, user_message),
        confirmed |-> FALSE]
  ELSE informational(state, user_message, extract_information_with_llm(outcome))

\* ConversationalSetupAgent.start_conversation: the caller keeps the state
setup_start_conversation ==
  /\ conversation = NoConversation
  /\ conversation' = initial_state
  /\ UNCHANGED <<wf_vars, calc, meetings, sessions, session_saves>>

\* ConversationalSetupAgent.process_message with the state the last call
\* returned; _save_conversation_as_meeting and _create_client_profile run
\* before the reply is appended
setup_process_message(user_message, outcome) ==
  /\ conversation # NoConversation
  /\ Len(conversation.messages) < 2 * MaxTurns
  /\ IsConversational[user_message] => Chats(conversation.messages) < MaxChat
  /\ LET state == [conversation EXCEPT !.messages =
                     Append(@, [role |-> "user", content |-> user_message])]
         handled == handle_message(state, user_message, outcome)
         company_name == handled.state.client_info.company_name
     IN  /\ conversation' =
               [handled.state EXCEPT !.messages =
                  Append(@, [role |-> "assistant", content |-> handled.response])]
         /\ IF handled.confirmed
            THEN /\ meetings' = Append(meetings,
                                  [client_name |-> company_name,
                                   message_count |-> Len(handled.state.messages)])
                 /\ profiles' = save_client_profile(profiles, company_name,
                                  conversational_profile(company_name,
                                     handled.state.client_info.tech_stack))
            ELSE UNCHANGED <<meetings, profiles>>
         /\ calc' = [fn |-> "process_message", user_message |-> user_message,
                     stage |-> conversation.conversation_stage,
                     conversational |-> IsConversational[user_message],
                     outcome |-> outcome]
  /\ UNCHANGED <<now, workflow_state, saves, pc, wid, client_data, results,
                 calls, failed_stage, ret, sessions, session_saves>>

\* the classification on its own
is_conversational_message_call(message) ==
  /\ calc' = [fn |-> "_is_conversational_message", message |-> message,
              conversational |-> is_conversational_message(message)]
  /\ UNCHANGED <<wf_vars, conv_vars>>

\* -------------------------------- the risk rules inside a full workflow
\* ClientProfileAgent._assess_complexity, lines 239..254
complexity_factors ==
  <<<<"i", "n", "t", "e", "g", "r", "a", "t", "i", "o", "n">>,
    <<"c", "o", "m", "p", "l", "i", "a", "n", "c", "e">>,
    <<"s", "c", "a", "l", "e">>,
    <<"m", "u", "l", "t", "i", "p", "l", "e">>,
    <<"c", "o", "m", "p", "l", "e", "x">>,
    <<"e", "n", "t", "e", "r", "p", "r", "i", "s", "e">>,
    <<"d", "i", "s", "t", "r", "i", "b", "u", "t", "e", "d">>,
    <<"m", "i", "c", "r", "o", "s", "e", "r", "v", "i", "c", "e", "s">>,
    <<"r", "e", "a", "l", "-", "t", "i", "m", "e">>>>

RECURSIVE join(_)
join(tech_stack) ==
  IF Len(tech_stack) = 0 THEN << >>
  ELSE IF Len(tech_stack) = 1 THEN tech_stack[1]
  ELSE tech_stack[1] \o <<",">> \o join(Tail(tech_stack))

assess_complexity(problem_statement, tech_stack) ==
  LET text == Lower(problem_statement \o <<" ">> \o tech_stack)
      complexity_score ==
        Cardinality({i \in DOMAIN complexity_factors :
                       Contains(complexity_factors[i], text)})
  IN  IF complexity_score >= 4 THEN "High"
      ELSE IF complexity_score >= 2 THEN "Medium"
      ELSE "Low"

ProblemStatements ==
  { <<"l", "e", "a", "d", " ", "m", "a", "n", "a", "g", "e", "m", "e", "n", "t">>, <<"C", "o", "m", "p", "l", "i", "a", "n", "c", "e", " ", "a", "t", " ", "s", "c", "a", "l", "e">>, <<"c", "o", "m", "p", "l", "e", "x", " ", "e", "n", "t", "e", "r", "p", "r", "i", "s", "e", " ", "i", "n", "t", "e", "g", "r", "a", "t", "i", "o", "n", " ", "a", "t", " ", "s", "c", "a", "l", "e">> }

\* the stage 3 result: build_client_profile for a client without a stored
\* profile, with the entries the risk rules look for
profile_stage_result(industry, problem_statement, tech_stack) ==
  [status |-> "success", agent |-> "client_profile",
   client_profile |->
     [industry |-> industry,
      current_project |->
        [complexity_level |-> assess_complexity(problem_statement, tech_stack)]],
   profile_exists |-> FALSE]

\* dict.get(key, default)
GetOr(d, key, default) == IF key \in DOMAIN d THEN d[key] ELSE default

\* _assess_risks, lines 225..286, from the three dicts it is given; the
\* domain result of the model holds tech_analysis where the code holds
\* domain_knowledge.tech_analysis
assess_risks_from(domain_knowledge, client_profile, meeting_analysis) ==
  LET compatibility_score == domain_knowledge.tech_analysis.compatibility_score
      current_project == GetOr(client_profile, "current_project", << >>)
      complexity == GetOr(current_project, "complexity_level", "medium")
      sentiment == GetOr(GetOr(meeting_analysis, "meeting_analysis", << >>),
                         "sentiment", << >>)
      category == GetOr(sentiment, "category", "none")
      industry == GetOr(client_profile, "industry", << >>)
  IN  assess_risks(compatibility_score, complexity, category, industry)

\* orchestrator lines 89..94 and generate_insights lines 32..34: the stage
\* results are handed over whole
workflow_risk_assessment(domain_result, stage3_result, meeting_result) ==
  assess_risks_from(domain_result, stage3_result, meeting_result)

workflow_risk_assessment_call(industry, problem_statement, tech_stack, blob) ==
  /\ calc = NoCalc
  /\ LET domain_result == process_domain_knowledge(industry, tech_stack)
         stage3_result ==
           profile_stage_result(industry, problem_statement,
                                join(split_and_strip(tech_stack)))
         meeting_result ==
           analyze_meeting(blob, [clauses |-> Empty,
                                  marks |-> [words |-> 100, questions |-> 0,
                                             exclamations |-> 0,
                                             mention |-> NoMention]])
     IN  calc' = [fn |-> "generate_insights",
                  domain_result |-> domain_result,
                  profile_result |-> stage3_result,
                  meeting_result |-> meeting_result,
                  risk_assessment |->
                    workflow_risk_assessment(domain_result, stage3_result,
                                             meeting_result)]
  /\ UNCHANGED <<wf_vars, conv_vars>>

\* one call, made from the initial state
AgentsNext ==
  \/ calc = NoCalc /\ \E current_tech \in StoredTech, tech_stack \in TechStacks :
        enhance_profile_call(current_tech, tech_stack)
  \/ calc = NoCalc /\ \E industry \in Industries, tech_stack \in TechStacks :
        process_domain_knowledge_call(industry, tech_stack)
  \/ calc = NoCalc /\ \E tech_stack \in TechStacks, recommended_tools \in RecommendedLists :
        analyze_tech_stack_call(tech_stack, recommended_tools)
  \/ calc = NoCalc /\ \E compatibility_score \in CompatibilityScores,
        complexity \in ComplexityLevels, category \in SentimentCategories,
        industry \in Industries :
        assess_risks_call(compatibility_score, complexity, category, industry)
  \/ calc = NoCalc /\ \E health_score \in HealthScores : categorize_health_level_call(health_score)
  \/ calc = NoCalc /\ \E industry \in Industries, tech_stack \in TechStacks,
        profile \in EnhancedProfiles, polarity \in Polarities \cup {NoPolarity} :
        calculate_project_health_score_call(industry, tech_stack, profile, polarity)
  \/ calc = NoCalc /\ \E polarity \in TextBlobPolarities : analyze_sentiment_call(polarity)
  \/ calc = NoCalc /\ \E shape \in TranscriptShapes :
        extract_action_items_call(Transcript(shape))
  \/ calc = NoCalc /\ \E transcript \in EngagementTranscripts :
        calculate_engagement_metrics_call(transcript)
  \/ calc = NoCalc /\ \E profile_data \in StoredProfileData, profile_exists \in BOOLEAN :
        build_client_profile_call(profile_data, profile_exists)
  \/ calc = NoCalc /\ \E message \in UserMessages \cup MoreMessages :
        is_conversational_message_call(message)
  \/ calc = NoCalc /\ \E blob \in BlobOutcomes, transcript \in MeetingTranscripts :
        analyze_meeting_call(blob, transcript)
  \/ calc = NoCalc /\ \E industry \in Industries, problem_statement \in ProblemStatements,
        tech_stack \in {s \in TechStacks : Len(s) = 1}, blob \in BlobOutcomes :
        workflow_risk_assessment_call(industry, problem_statement, tech_stack, blob)

SpecAgents == Init /\ [][AgentsNext]_vars

\* one conversation with the setup agent
ConversationNext ==
  \/ setup_start_conversation
  \/ \E user_message \in UserMessages :
        \E outcome \in LLMOutcomes(IF IsConversational[user_message]
                                  THEN "none"
                                  ELSE ExtractionType(conversation.conversation_stage)) :
           setup_process_message(user_message, outcome)

SpecConversation == Init /\ [][ConversationNext]_vars

\* ---------------------------------------------------------------------------
\* NaturalConversationalAgent (natural_conversational_agent.py)

MaxSessionTurns == 4
MaxSessionSaves == 2

\* the fields of ClientInfo, lines 14..22
NaturalFields ==
  {"company_name", "industry", "problem_statement", "tech_stack", "timeline",
   "budget", "team_size", "location", "contact_info"}

total_fields == 9

\* ClientInfo(): every field None. A client_info is the map of its fields that
\* are not None (to_dict, lines 24..26).
NewNaturalInfo == Empty

filled_fields(client_info) == Cardinality(DOMAIN client_info)

\* faulty variant: the share is taken of eight fields
completion_percentage_of_eight(client_info) ==
  Frac(filled_fields(client_info) * 100, total_fields - 1)

\* ClientInfo.completion_percentage
completion_percentage(client_info) ==
  Frac(filled_fields(client_info) * 100, total_fields)

\* what the extraction chain gives: an exception, a JSON value that is no
\* object, or an object; nulls are the keys it holds with the value null
ExtractedObjects ==
  { Empty,
    [company_name |-> "TechCorp", industry |-> "fintech", notes |-> "John"],
    [company_name |-> ""],
    [problem_statement |-> "scalability", tech_stack |-> <<"Python", "Django">>],
    [timeline |-> "6 months", budget |-> "$200,000"],
    [team_size |-> 15, location |-> "San Francisco"],
    [contact_info |-> [email |-> "john@techcorp.com"]] }

NaturalExtractions ==
  {[kind |-> "raises"], [kind |-> "list"]}
    \cup {[kind |-> "dict", values |-> o, nulls |-> {}] : o \in ExtractedObjects}
    \cup {[kind |-> "dict", values |-> Empty, nulls |-> NaturalFields],
          [kind |-> "dict", values |-> [budget |-> "$200,000"],
           nulls |-> {"company_name", "timeline"}]}

\* _extract_information, lines 259..272: every value that is not None is set
\* on the field of its key; an exception is logged and nothing is set
extract_information(client_info, outcome) ==
  IF outcome.kind # "dict"
  THEN client_info
  ELSE LET set_keys == {key \in DOMAIN outcome.values : key \in NaturalFields}
       IN  [key \in DOMAIN client_info \cup set_keys |->
              IF key \in set_keys THEN outcome.values[key] ELSE client_info[key]]

\* the outcome of a chain that writes a message
ChainOutcomes == {"ok", "raises"}

\* _generate_response, lines 314..326
generate_response(reply) ==
  IF reply = "ok" THEN "response" ELSE "I appreciate you sharing that with me."

\* ConversationSession(session_id), lines 38..44
NewSession(session_id) ==
  [session_id |-> session_id, messages |-> Empty, client_info |-> NewNaturalInfo,
   is_complete |-> FALSE]

\* start_conversation, lines 81..126: the session replaces the one stored under
\* the id; the opening message is kept when the chain gives one
started_session(session_id, opening) ==
  [NewSession(session_id) EXCEPT !.messages =
     IF opening = "ok" THEN <<[role |-> "assistant", content |-> "opening"]>> ELSE Empty]

NaturalConversationalAgent_start_conversation(session_id, opening) ==
  /\ sessions' = (session_id :> started_session(session_id, opening)) @@ sessions
  /\ calc' = [fn |-> "start_conversation", session_id |-> session_id]
  /\ UNCHANGED <<wf_vars, conversation, meetings, session_saves>>

\* process_message, lines 187..229, for a session that is stored
processed_session(session, user_message, outcome, reply) ==
  LET client_info == extract_information(session.client_info, outcome)
      messages == session.messages
                    \o <<[role |-> "user", content |-> user_message],
                         [role |-> "assistant", content |-> generate_response(reply)]>>
      completes == /\ ~Less(completion_percentage(client_info), Frac(80, 1))
                   /\ ~session.is_complete
  IN  [session |-> [session EXCEPT !.messages = messages,
                                   !.client_info = client_info,
                                   !.is_complete = session.is_complete \/ completes],
       saves |-> completes]

\* process_message of a session id: a session that is not stored is started,
\* and the message is dropped (lines 189..190)
NaturalConversationalAgent_process_message(session_id, user_message, outcome, reply) ==
  IF session_id \notin DOMAIN sessions
  THEN /\ outcome.kind = "raises"
       /\ NaturalConversationalAgent_start_conversation(session_id, reply)
  ELSE LET processed == processed_session(sessions[session_id], user_message, outcome, reply)
       IN  /\ Len(sessions[session_id].messages) < 2 * MaxSessionTurns
           /\ processed.saves => session_saves[session_id] < MaxSessionSaves
           /\ sessions' = [sessions EXCEPT ![session_id] = processed.session]
           /\ session_saves' = [session_saves EXCEPT ![session_id] =
                                  IF processed.saves THEN @ + 1 ELSE @]
           /\ calc' = [fn |-> "process_message", session_id |-> session_id,
                       outcome |-> outcome, reply |-> reply]
           /\ UNCHANGED <<wf_vars, conversation, meetings>>

NaturalMessages == {"Hi! I'm John from TechCorp"}

\* the calls a client of the natural agent makes
NaturalNext ==
  \/ \E session_id \in SessionIds : \E opening \in ChainOutcomes :
        NaturalConversationalAgent_start_conversation(session_id, opening)
  \/ \E session_id \in SessionIds : \E user_message \in NaturalMessages :
        \E outcome \in NaturalExtractions : \E reply \in ChainOutcomes :
           NaturalConversationalAgent_process_message(session_id, user_message, outcome, reply)

SpecNatural == Init /\ [][NaturalNext]_vars

\* C12: enhancing a profile twice with the same new tech stack gives the same
\* set of technologies as enhancing it once, and the merged tech_stack list
\* holds no string twice.
C12_TechStackMergeIdempotent ==
  calc.fn = "_enhance_profile" =>
    /\ Range(calc.twice) = Range(calc.once)
    /\ Range(calc.once) = Range(calc.current_tech) \cup Range(calc.new_tech)
    /\ NoDuplicates(calc.once)
    /\ NoDuplicates(calc.twice)

\* a merge whose inputs overlap and repeat a tool
C12_Witness ==
  /\ calc.fn = "_enhance_profile"
  /\ ~NoDuplicates(calc.new_tech)
  /\ Range(calc.current_tech) \cap Range(calc.new_tech) # {}
  /\ Len(calc.once) = 2
  /\ calc.twice # calc.once

\* C13: the domain stage's confidence_score is 0.9 when the lower-cased
\* industry is a key of the knowledge base and 0.6 for every other industry,
\* the empty string included; no other value comes out.
C13_ConfidenceScore ==
  calc.fn = "process_domain_knowledge" =>
    calc.result.confidence_score
      = IF Lower(calc.industry) \in DOMAIN knowledge_base THEN 90 ELSE 60

\* a known industry typed with capitals, and the empty industry
C13_Witness ==
  /\ calc.fn = "process_domain_knowledge"
  /\ \/ /\ calc.industry \notin DOMAIN knowledge_base
        /\ calc.result.confidence_score = 90
     \/ /\ calc.industry = Empty
        /\ calc.result.confidence_score = 60

\* C14: the compatibility_score of _analyze_tech_stack lies in [0,1] for
\* every tech stack (a tool may be listed more than once) and every
\* recommended-tools list, and it is 1.0 whenever the tech stack contains
\* every recommended tool ignoring case and surrounding whitespace.
C14_CompatibilityScoreInUnitInterval ==
  calc.fn = "_analyze_tech_stack" =>
    LET score == calc.analysis.compatibility_score
        items == {Lower(Strip(calc.tech_stack[i])) : i \in DOMAIN calc.tech_stack}
        wanted == {Lower(calc.recommended_tools[i]) : i \in DOMAIN calc.recommended_tools}
    IN  /\ 0 <= score.num
        /\ score.num <= score.den
        /\ (wanted # {} /\ wanted \subseteq items) => score.num = score.den

\* C15: with no risk the assessment has overall_risk_score 0.2 and risk_level
\* low; otherwise the score is the mean of the risks' probability weights
\* (low 0.3, medium 0.6, high 0.9) and the level is high from 0.7, medium
\* from 0.4, low below.
C15_RiskScoreAndLevel ==
  calc.fn = "_assess_risks" =>
    LET risks == calc.assessment.risks
        score == calc.assessment.overall_risk_score
        level == calc.assessment.risk_level
        weights == [i \in DOMAIN risks |->
                      CASE risks[i].probability = "low" -> 3
                        [] risks[i].probability = "medium" -> 6
                        [] risks[i].probability = "high" -> 9]
    IN  /\ risks = Empty => score = Frac(2, 10) /\ level = "low"
        /\ risks # Empty => score.num * Len(risks) * 10 = SumSeq(weights) * score.den
        /\ level = "high" <=> score.num * 10 >= 7 * score.den
        /\ level = "medium" <=> /\ score.num * 10 < 7 * score.den
                                /\ score.num * 10 >= 4 * score.den
        /\ level = "low" <=> score.num * 10 < 4 * score.den

\* no rule fires: the baseline
C15_Witness ==
  /\ calc.fn = "_assess_risks"
  /\ calc.assessment.risks = Empty
  /\ calc.assessment.risk_level = "low"

\* three risks whose mean is exactly 0.7
C15_BoundaryReached ==
  /\ calc.fn = "_assess_risks"
  /\ Len(calc.assessment.risks) = 3
  /\ calc.assessment.risk_level = "high"

\* C16: health_level boundaries are inclusive: 80 and above is excellent, 60
\* and above good, 40 and above fair, everything below 40 poor, for every
\* score from 0 to 100.
C16_HealthLevelBoundaries ==
  calc.fn = "_categorize_health_level" =>
    LET tenths == calc.health_score.num
    IN  /\ calc.health_score.den = 10
        /\ calc.health_level =
             CASE tenths >= 800 -> "excellent"
               [] tenths >= 600 /\ tenths < 800 -> "good"
               [] tenths >= 400 /\ tenths < 600 -> "fair"
               [] tenths < 400 -> "poor"

\* a score of exactly 80
C16_Witness ==
  /\ calc.fn = "_categorize_health_level"
  /\ calc.health_score = Frac(800, 10)
  /\ calc.health_level = "excellent"

\* C17: the project health overall_score is the arithmetic mean of its four
\* components and lies in [0,100] for every combination of outputs of the
\* three earlier stages.
C17_HealthScoreIsMeanWithinRange ==
  calc.fn = "_calculate_project_health_score" =>
    LET c == calc.health.component_scores
        total == Plus(Plus(Plus(c.technical_compatibility, c.stakeholder_sentiment),
                           c.profile_completeness), c.domain_knowledge)
        score == calc.health.overall_score
    IN  /\ score.num * total.den * 4 = total.num * score.den
        /\ 0 <= score.num
        /\ score.num <= 100 * score.den

\* C18: the sentiment category is positive for a polarity above 0.1, negative
\* for a polarity below -0.1 and neutral for every polarity from -0.1 to 0.1,
\* both ends included; the agent and the store agree.
C18_SentimentThresholdsStrict ==
  calc.fn = "_analyze_sentiment" =>
    LET p == calc.raw_polarity
        expected == CASE p > 1000 -> "positive"
                      [] p < 0 - 1000 -> "negative"
                      [] p >= 0 - 1000 /\ p <= 1000 -> "neutral"
    IN  /\ calc.sentiment.category = expected
        /\ calc.stored[2] = expected

\* a polarity of exactly 0.1
C18_Witness ==
  /\ calc.fn = "_analyze_sentiment"
  /\ calc.raw_polarity = 1000
  /\ calc.sentiment.category = "neutral"

\* C19: _extract_action_items returns at most 5 items, no two of them have
\* the same text ignoring case, and of the candidates with the same text the
\* one kept is the first in pattern order.
C19_ActionItemsUniqueAtMostFive ==
  calc.fn = "_extract_action_items" =>
    LET all == calc.action_items
        kept == calc.unique_items
    IN  /\ Len(kept) <= 5
        /\ \A i, j \in DOMAIN kept :
             Lower(kept[i].item) = Lower(kept[j].item) => i = j
        /\ \A i \in DOMAIN kept :
             \E k \in DOMAIN all :
                /\ all[k] = kept[i]
                /\ \A h \in 1..(k - 1) : Lower(all[h].item) # Lower(kept[i].item)
                /\ \A h \in 1..(k - 1) :
                      \/ all[h].found.pattern < all[k].found.pattern
                      \/ /\ all[h].found.pattern = all[k].found.pattern
                         /\ all[h].found.at < all[k].found.at

\* more than five different texts, one of them matched twice
C19_Witness ==
  /\ calc.fn = "_extract_action_items"
  /\ Len(calc.unique_items) = 5
  /\ Cardinality({calc.action_items[k].item : k \in DOMAIN calc.action_items}) > 5
  /\ \E h, k \in DOMAIN calc.action_items :
        h < k /\ calc.action_items[h].item = calc.action_items[k].item

\* C20: engagement_score lies in [0,1] for every transcript, whether it is
\* computed from the word, question and exclamation counts or taken from an
\* "engagement: NN%" value found in the transcript.
C20_EngagementScoreInUnitInterval ==
  calc.fn = "_calculate_engagement_metrics" =>
    /\ 0 <= calc.metrics.engagement_score.num
    /\ calc.metrics.engagement_score.num <= calc.metrics.engagement_score.den

\* the same bound for the scores computed from the counts alone
C20_ComputedScoreInUnitInterval ==
  (calc.fn = "_calculate_engagement_metrics"
     /\ calc.metrics.engagement_percentage = NoMention) =>
    /\ 0 <= calc.metrics.engagement_score.num
    /\ calc.metrics.engagement_score.num <= calc.metrics.engagement_score.den

\* C21: the completeness_score of a profile stage result is the completeness
\* of the enhanced profile in the same result (required fields present over
\* 7, plus 0.1 for project context, 0.1 for business context and 0.05 for two
\* or more stakeholders) and is never above 1.
C21_CompletenessOfReturnedProfile ==
  calc.fn = "build_client_profile" =>
    LET p == calc.result.client_profile
        score == calc.result.completeness_score
        \* in units of 1/140
        sum == 20 * Cardinality(p.filled \cap required_fields)
                 + (IF p.current_project THEN 14 ELSE 0)
                 + (IF p.business_context THEN 14 ELSE 0)
                 + (IF p.stakeholders >= 2 THEN 7 ELSE 0)
    IN  /\ score = calculate_profile_completeness(p)
        /\ score.num * 140 = (IF sum > 140 THEN 140 ELSE sum) * score.den
        /\ score.num <= score.den

\* a stored profile without the two context entries and without a tech
\* stack: the score counts what the enhancement added
C21_Witness ==
  /\ calc.fn = "build_client_profile"
  /\ calc.profile_data.filled = {"name", "industry"}
  /\ ~calc.profile_data.current_project
  /\ ~calc.profile_data.business_context
  /\ calc.result.completeness_score = Plus(Frac(3, 7), Frac(2, 10))

\* C22: execute_single_agent leaves workflow_state as it was, returns the
\* result of the named stage for each of the five stage names, and returns an
\* error-tagged result for every other name.
C22_SingleAgentBypass ==
  [][calc'.fn = "execute_single_agent" /\ wf_vars' = wf_vars =>
       /\ workflow_state' = workflow_state
       /\ IF calc'.agent_name \in Range(StageKeys)
          THEN /\ DOMAIN calc'.result = {"status", "agent"}
               /\ calc'.result.agent = calc'.agent_name
          ELSE calc'.result.status = "error"]_vars

\* what does hold: workflow_state is left alone and the call returns a tagged
\* result for every name
C22_SingleAgentLeavesState ==
  [][calc' # calc =>
       /\ workflow_state' = workflow_state
       /\ calc'.result.status \in {"success", "error"}
       /\ calc'.agent_name \notin Range(StageKeys) => calc'.result = UnknownAgent]_vars

\* a step of ConversationalSetupAgent.process_message whose extraction
\* failed or gave an empty map
ExtractionGaveNothing ==
  /\ conversation # NoConversation
  /\ conversation' # conversation
  /\ ~calc'.conversational
  /\ ExtractionType(calc'.stage) # "none"
  /\ calc'.outcome.raises \/ DOMAIN calc'.outcome.result = {}

\* C23: when the extraction fails or returns an empty map while a message is
\* processed, every client-info field collected earlier in the conversation
\* keeps its value.
C23_FailedExtractionKeepsFields ==
  [][ExtractionGaveNothing =>
       \A field \in ClientInfoFields :
          conversation.client_info[field] # None =>
            conversation'.client_info[field] = conversation.client_info[field]]_vars

\* what does hold: a field is replaced only by the text of the message, and
\* only the field the stage asks for (problem_statement, tech_stack, timeline)
C23_OnlyFallbackReplaces ==
  [][ExtractionGaveNothing =>
       \A field \in ClientInfoFields :
          conversation'.client_info[field] # conversation.client_info[field] =>
            \/ conversation.client_info[field] = None
            \/ /\ calc'.stage = "gather_basic_info" /\ field = "problem_statement"
               /\ conversation'.client_info[field] = calc'.user_message
            \/ /\ calc'.stage = "gather_technical_info" /\ field = "tech_stack"
               /\ conversation'.client_info[field] = split_strip(calc'.user_message)
            \/ /\ calc'.stage = "gather_project_details" /\ field = "timeline"
               /\ conversation'.client_info[field] = calc'.user_message]_vars

\* C24: when the sentiment library fails, _analyze_sentiment gives polarity 0,
\* subjectivity 0 and category neutral, and analyze_meeting still returns a
\* result tagged success.
C24_SentimentFailureIsNeutral ==
  (calc.fn = "analyze_meeting" /\ calc.blob.raises) =>
    /\ calc.result.status = "success"
    /\ calc.result.meeting_analysis.sentiment.polarity = 0
    /\ calc.result.meeting_analysis.sentiment.subjectivity = 0
    /\ calc.result.meeting_analysis.sentiment.category = "neutral"

\* the library fails on a transcript with an action item in it
C24_Witness ==
  /\ calc.fn = "analyze_meeting"
  /\ calc.blob.raises
  /\ calc.result.status = "success"
  /\ Len(calc.result.meeting_analysis.action_items) = 1

RiskCategories(assessment) ==
  {assessment.risks[i].category : i \in DOMAIN assessment.risks}

\* C25: in a full workflow, a stage 3 profile with industry healthcare puts the
\* compliance risk into the risk list of the insight stage, and a stage 3
\* profile whose current_project has complexity_level High puts the
\* complexity risk into it.
C25_RisksFollowProfile ==
  calc.fn = "generate_insights" =>
    LET profile == calc.profile_result.client_profile
        categories == RiskCategories(calc.risk_assessment)
    IN  /\ Lower(profile.industry) = <<"h", "e", "a", "l", "t", "h", "c", "a", "r", "e">>
             => "compliance" \in categories
        /\ profile.current_project.complexity_level = "High"
             => "complexity" \in categories

\* what does hold: in a full workflow neither of the two rules ever fires,
\* while the technical and the stakeholder rule follow the earlier stages
C25_OnlyTwoRulesFire ==
  calc.fn = "generate_insights" =>
    LET categories == RiskCategories(calc.risk_assessment)
    IN  /\ categories \subseteq {"technical", "stakeholder"}
        /\ "technical" \in categories <=>
             Less(calc.domain_result.tech_analysis.compatibility_score, Frac(1, 2))
        /\ "stakeholder" \in categories <=>
             /\ calc.meeting_result.status = "success"
             /\ calc.meeting_result.meeting_analysis.sentiment.category = "negative"

\* run r enters execute_full_workflow in this step
StartsNow(r) == pc[r] = "idle" /\ pc'[r] # "idle"

ProfileStageDone(r) ==
  /\ "client_profile" \in DOMAIN results[r]
  /\ results[r]["client_profile"].status = "success"

C27_WorkflowsNeverWrite ==
  [][profiles' # profiles => saves' = saves + 1]_vars

\* a step of ConversationalSetupAgent.process_message
ProcessesMessage == conversation # NoConversation /\ conversation' # conversation

\* C28: a message that _is_conversational_message classifies as conversational
\* ("hello?", a message of at most three characters, ...) leaves
\* conversation_stage, is_complete and every client_info field as they were, at
\* every stage, and adds to the history the user message and one assistant
\* reply, nothing else.
C28_ConversationalMessageOnlyReplies ==
  [][ProcessesMessage =>
       /\ (calc'.user_message \in {<<"h", "e", "l", "l", "o", "?">>, <<"y", "e", "s">>}) => calc'.conversational
       /\ calc'.conversational =>
            /\ conversation'.conversation_stage = conversation.conversation_stage
            /\ conversation'.is_complete = conversation.is_complete
            /\ conversation'.client_info = conversation.client_info
            /\ Len(conversation'.messages) = Len(conversation.messages) + 2
            /\ SubSeq(conversation'.messages, 1, Len(conversation.messages))
                 = conversation.messages
            /\ conversation'.messages[Len(conversation.messages) + 1]
                 = [role |-> "user", content |-> calc'.user_message]
            /\ conversation'.messages[Len(conversation.messages) + 2].role = "assistant"
            /\ UNCHANGED <<meetings, profiles>>]_vars

\* "hello?" while the technology setup is being asked for
C28_Witness ==
  /\ calc.fn = "process_message"
  /\ calc.user_message = <<"h", "e", "l", "l", "o", "?">>
  /\ calc.stage = "gather_technical_info"
  /\ conversation.conversation_stage = "gather_technical_info"
  /\ conversation.client_info.problem_statement # None
  /\ conversation.messages[Len(conversation.messages)].content = "I'm here! technology"

\* the classification: every message with a question mark, of at most three
\* characters or holding one of the patterns is conversational
C28_Classification ==
  calc.fn = "_is_conversational_message" =>
    /\ calc.message \in {<<"h", "e", "l", "l", "o", "?">>, <<"a", "r", "e", " ", "y", "o", "u", " ", "t", "h", "e", "r", "e", "?">>, <<"o", "k">>, <<"h", "i">>, <<"y", "e", "s">>, << >>, <<"a", "n", "d", " ", "t", "h", "e", " ", "c", "o", "s", "t", " ", "?">>, <<"Y", "e", "s", ",", " ", "t", "h", "a", "t", " ", "i", "s", " ", "a", "l", "l">>, <<"t", "h", "i", "s", " ", "i", "s", " ", "c", "o", "r", "r", "e", "c", "t">>} =>
         calc.conversational
    /\ calc.message \in {<<"c", "o", "r", "r", "e", "c", "t">>, <<"J", "a", "v", "a", ",", " ", "G", "o">>, <<"A", "c", "m", "e", ",", " ", "a", " ", "r", "e", "t", "a", "i", "l", "e", "r">>} => ~calc.conversational

\* the reply to the summary holds "yes" or "correct"
Confirms(user_message) == Contains(<<"y", "e", "s">>, Lower(user_message)) \/ Contains(<<"c", "o", "r", "r", "e", "c", "t">>, Lower(user_message))

\* the meeting and the client profile of the conversation are saved in the step
SavesMeetingAndProfile ==
  /\ Len(meetings') = Len(meetings) + 1
  /\ meetings'[Len(meetings')].client_name = conversation.client_info.company_name
  /\ profiles' = save_client_profile(profiles, conversation.client_info.company_name,
                   conversational_profile(conversation.client_info.company_name,
                                          conversation.client_info.tech_stack))

\* C29: at stage summarize_and_confirm a message holding "yes" or "correct"
\* moves the conversation to stage complete with is_complete true and saves
\* the meeting and the client profile, and any other message sends the stage
\* back to gather_basic_info.
C29_ConfirmationCompletes ==
  [][(ProcessesMessage /\ conversation.conversation_stage = "summarize_and_confirm") =>
       IF Confirms(calc'.user_message)
       THEN /\ conversation'.conversation_stage = "complete"
            /\ conversation'.is_complete
            /\ SavesMeetingAndProfile
       ELSE conversation'.conversation_stage = "gather_basic_info"]_vars

\* what the code does at the summary: the rule of the claim holds for the
\* messages that are not conversational, and a conversational message, "yes"
\* among them, leaves the stage where it is and saves nothing
C29_OnlyInformationalConfirms ==
  [][(ProcessesMessage /\ conversation.conversation_stage = "summarize_and_confirm") =>
       IF calc'.conversational
       THEN /\ conversation'.conversation_stage = "summarize_and_confirm"
            /\ ~conversation'.is_complete
            /\ UNCHANGED <<meetings, profiles>>
       ELSE IF Confirms(calc'.user_message)
       THEN /\ conversation'.conversation_stage = "complete"
            /\ conversation'.is_complete
            /\ SavesMeetingAndProfile
       ELSE /\ conversation'.conversation_stage = "gather_basic_info"
            /\ ~conversation'.is_complete
            /\ UNCHANGED <<meetings, profiles>>]_vars

\* is_complete is true only at stage complete
C29_CompleteOnlyAtStageComplete ==
  (conversation # NoConversation /\ conversation.is_complete) =>
     conversation.conversation_stage = "complete"

\* "yes" is answered to the summary and the conversation stays at the summary
C29_YesIsNotHeard ==
  /\ calc.fn = "process_message"
  /\ calc.user_message = <<"y", "e", "s">>
  /\ calc.stage = "summarize_and_confirm"
  /\ conversation.conversation_stage = "summarize_and_confirm"
  /\ ~conversation.is_complete
  /\ meetings = Empty

\* "correct" is answered to the summary and the conversation is complete
C29_CorrectConfirms ==
  /\ calc.fn = "process_message"
  /\ calc.user_message = <<"c", "o", "r", "r", "e", "c", "t">>
  /\ calc.stage = "summarize_and_confirm"
  /\ conversation.is_complete
  /\ Len(meetings) = 1

\* the step is a start_conversation of the session id, which replaces its session
Restarts(id) == calc'.fn = "start_conversation" /\ calc'.session_id = id

Stored(id) == id \in DOMAIN sessions

\* C30: under every sequence of start_conversation and process_message calls
\* for a session id, is_complete is true only with at least 80% of the nine
\* fields filled, never goes back to false, and _save_session is invoked at
\* most once for the session id.
C30_CompleteOnceSavedOnce ==
  [][\A id \in SessionIds :
       /\ sessions'[id].is_complete => filled_fields(sessions'[id].client_info) * 100 >= 80 * 9
       /\ (Stored(id) /\ sessions[id].is_complete) => sessions'[id].is_complete
       /\ session_saves'[id] <= 1]_vars

\* C30, as the code has it: between two starts of a session id, is_complete
\* becomes true only with at least eight of the nine fields filled, stays true,
\* and _save_session is invoked exactly in the step that makes it true, so at
\* most once; a start_conversation of a stored id puts an empty session with
\* is_complete false in its place, which can complete and be saved again.
C30_CompleteOnceSavedOncePerStart ==
  [][\A id \in SessionIds :
       /\ sessions'[id].is_complete => filled_fields(sessions'[id].client_info) * 100 >= 80 * 9
       /\ (Stored(id) /\ ~Restarts(id)) =>
            /\ sessions[id].is_complete => sessions'[id].is_complete
            /\ session_saves'[id] = session_saves[id] +
                 (IF ~sessions[id].is_complete /\ sessions'[id].is_complete THEN 1 ELSE 0)
            /\ DOMAIN sessions[id].client_info \subseteq DOMAIN sessions'[id].client_info
       /\ Restarts(id) =>
            /\ ~sessions'[id].is_complete
            /\ DOMAIN sessions'[id].client_info = {}
            /\ session_saves'[id] = session_saves[id]]_vars

\* a session completed with eight fields, after an earlier session of the same
\* id was completed, saved and started again
C30_Witness ==
  /\ Stored("s1")
  /\ sessions["s1"].is_complete
  /\ filled_fields(sessions["s1"].client_info) = 8
  /\ session_saves["s1"] = 2

\* a session with seven of the nine fields is not complete
C30_SevenFieldsAreNotEnough ==
  \A id \in SessionIds :
     (Stored(id) /\ filled_fields(sessions[id].client_info) = 7) => ~sessions[id].is_complete

\* an extraction that raises, gives no object, an empty object or only nulls
NaturalExtractionGaveNothing(outcome) ==
  outcome.kind # "dict" \/ DOMAIN outcome.values \cap NaturalFields = {}

\* C23, for NaturalConversationalAgent: a failed or empty extraction leaves
\* every field of client_info as it was
C23_NaturalKeepsFields ==
  [][\A id \in SessionIds :
       (Stored(id) /\ calc'.fn = "process_message" /\ sessions' # sessions
          /\ NaturalExtractionGaveNothing(calc'.outcome)) =>
         /\ DOMAIN sessions'[id].client_info = DOMAIN sessions[id].client_info
         /\ \A key \in DOMAIN sessions[id].client_info :
               sessions'[id].client_info[key] = sessions[id].client_info[key]]_vars

====
